---------------------------- MODULE Spec2Model ----------------------------
(***************************************************************************)
(* The training loop `learn` of deep symbolic optimization, in its two     *)
(* variants: dso/train.py (one reward r per Program) and dsr/train.py (a   *)
(* base reward base_r next to the complexity-penalised reward r, and the   *)
(* optional GP meld that appends evolutionary rows to the batch).          *)
(*                                                                         *)
(* A Program is identified by the key of its traversal.  Every per-row     *)
(* array of the loop (actions, obs, priors, r, l, ...) is a sequence of    *)
(* records [row |-> i, val |-> x]: val is the array's entry and row is the *)
(* index the entry had in the epoch's full batch, so that a mask applied   *)
(* to one array and not to another shows as a difference of rows.          *)
(***************************************************************************)
EXTENDS Integers, Sequences, FiniteSets, TLC

(***************************************************************************)
(* Bounds of the model.                                                    *)
(***************************************************************************)
NKeys == 3          \* distinct traversals the controller can sample
MaxEpochs == 2      \* largest number of epochs a run is given
MaxLength == 3      \* controller.max_length

(***************************************************************************)
(* Program constants.                                                      *)
(***************************************************************************)
ClipBound == 1000000    \* np.clip(r, -1e6, 1e6)

None == <<>>
Some(x) == <<x>>
IsNone(o) == o = <<>>
Get(o) == o[1]

(***************************************************************************)
(* The Task: what Program.optimize, Program.base_r, Program.r and          *)
(* Program.evaluate give for a traversal.  The task is deterministic, so   *)
(* each is a function of the key.  Keys 1..NKeys evaluate normally; key 0  *)
(* is a traversal whose numeric evaluation raises an exception; BigKey and *)
(* HugeKey are traversals whose rewards lie beyond the bound of np.clip.   *)
(***************************************************************************)
BadKey == 0
BigKey == NKeys + 1
HugeKey == NKeys + 2
GoodKeys == 1..NKeys
Keys == {BadKey, BigKey, HugeKey} \cup GoodKeys
TaskRaises(k) == k = BadKey
TaskBaseReward(k) == IF k = BigKey THEN 2 * ClipBound
                     ELSE IF k = HugeKey THEN 3 * ClipBound ELSE k
TaskComplexity(k) == IF k % 3 = 0 THEN 2 ELSE 0
TaskReward(k) == TaskBaseReward(k) - TaskComplexity(k)
TaskSuccess(k) == k % 2 = 1
TaskConstants(k) == 10 + k
TaskLength(k) == k + 1
TaskInvalid(k) == k % 3 = 0

(***************************************************************************)
(* The arguments of learn.  epsilon is a percentage.  gp is the GP meld:   *)
(* "none" (gp_controller is None), "returned" (return_gp_obs) or "dropped" *)
(* (not return_gp_obs); gp_nevals is what gp_controller.nevals reports per *)
(* call.  sample_keys is the support of controller.sample.                 *)
(***************************************************************************)
BatchSizes == {2}
BatchSizeMax == CHOOSE b \in BatchSizes : \A x \in BatchSizes : x <= b
Epsilons == {None, Some(25), Some(50)}
Baselines == {"ewma_R", "R_e"}
Alphas == {50}
GPModes == {"none", "returned", "dropped"}
GPNevals == {1, 3}

\* The arguments that set up the queues and the stochastic-task assertions:
\* use_memory, memory_capacity, warm_start; controller.pqt and
\* controller.pqt_k; Program.task.stochastic and whether
\* Program.library.const_token is set.  memory_slack is the probability mass
\* the controller leaves outside the memory (compute_probs).
NoQueues == [use_memory |-> {FALSE}, memory_capacity |-> {1}, warm_start |-> {None},
             memory_slack |-> {1}, pqt |-> {FALSE}, pqt_k |-> {None},
             stochastic |-> {FALSE}, const_token |-> {FALSE}]

ConfigSpace(keys, epochs, samples) ==
    { c \in [ variant : {"dso", "dsr"}, pool : BOOLEAN, batch_size : BatchSizes,
              epsilon : Epsilons, baseline : Baselines,
              alpha : Alphas, b_jumpstart : {TRUE},
              early_stopping : BOOLEAN, eval_all : BOOLEAN,
              n_epochs : {None} \cup {Some(e) : e \in epochs},
              n_samples : {None} \cup {Some(n) : n \in samples},
              gp : GPModes, gp_nevals : GPNevals, sample_keys : {keys},
              use_memory : NoQueues.use_memory,
              memory_capacity : NoQueues.memory_capacity,
              warm_start : NoQueues.warm_start,
              memory_slack : NoQueues.memory_slack,
              pqt : NoQueues.pqt, pqt_k : NoQueues.pqt_k,
              stochastic : NoQueues.stochastic,
              const_token : NoQueues.const_token ] :
        /\ c.variant = "dso" => c.gp = "none"
        /\ c.gp = "none" => c.gp_nevals = 1 }

\* The configurations with a memory queue, a priority queue or a stochastic
\* task, with the sample budget given; the GP meld only in dsr with one
\* queue and its rows not returned to the controller.
MemoryCapacities == {1, 2}
QueueConfigSpace(keys, samples) ==
    { c \in [ variant : {"dso", "dsr"}, pool : BOOLEAN, batch_size : BatchSizes,
              epsilon : {None, Some(50), Some(100)}, baseline : Baselines,
              alpha : Alphas, b_jumpstart : {TRUE},
              early_stopping : BOOLEAN, eval_all : BOOLEAN,
              n_epochs : {None}, n_samples : {Some(n) : n \in samples},
              gp : {"none", "dropped"}, gp_nevals : {1}, sample_keys : {keys},
              use_memory : BOOLEAN, memory_capacity : MemoryCapacities,
              warm_start : {None, Some(1)}, memory_slack : {0, 1},
              pqt : BOOLEAN, pqt_k : {None, Some(0), Some(1), Some(2)},
              stochastic : BOOLEAN, const_token : BOOLEAN ] :
        /\ c.baseline = "R_e" <=> ~IsNone(c.epsilon)
        /\ ~(c.early_stopping /\ c.eval_all)
        /\ ~c.use_memory => /\ c.memory_capacity = 1
                            /\ c.warm_start = None
                            /\ c.memory_slack = 1
        /\ c.memory_slack = 0 => c.memory_capacity = 2 /\ c.warm_start = None
        /\ c.pqt <=> ~IsNone(c.pqt_k)
        /\ c.pqt_k \in {Some(0), Some(2)} => ~c.use_memory /\ ~c.stochastic
        /\ c.const_token => c.stochastic
        /\ c.epsilon = Some(100) => c.use_memory /\ ~c.pqt /\ ~c.stochastic
        /\ c.gp = "dropped" =>
               /\ c.variant = "dsr" /\ c.epsilon = Some(50)
               /\ ~c.pool /\ ~c.stochastic /\ ~c.early_stopping /\ ~c.eval_all
               /\ \/ c.pqt_k = Some(2)
                  \/ /\ c.use_memory /\ ~c.pqt /\ c.memory_capacity = 2
                     /\ c.warm_start = None /\ c.memory_slack = 1
        /\ (c.pool \/ (c.stochastic /\ ~c.const_token))
               => ~c.use_memory /\ ~c.pqt /\ ~c.early_stopping /\ ~c.eval_all }

\* The configurations of the four baseline modes, with alpha 0.5 and 1.0,
\* the EWMA jump-started or not, and risk-seeking on or off, without queues,
\* with the sample budget given; the GP meld only in dsr with its rows not
\* returned to the controller.
AllBaselines == {"ewma_R", "R_e", "ewma_R_e", "combined"}
BaselineConfigSpace(keys, samples) ==
    { c \in [ variant : {"dso", "dsr"}, pool : BOOLEAN, batch_size : BatchSizes,
              epsilon : {None, Some(25), Some(50), Some(100)},
              baseline : AllBaselines,
              alpha : {50, 100}, b_jumpstart : BOOLEAN,
              early_stopping : {FALSE}, eval_all : {FALSE},
              n_epochs : {None}, n_samples : {Some(n) : n \in samples},
              gp : {"none", "dropped"}, gp_nevals : {1}, sample_keys : {keys},
              use_memory : NoQueues.use_memory,
              memory_capacity : NoQueues.memory_capacity,
              warm_start : NoQueues.warm_start,
              memory_slack : NoQueues.memory_slack,
              pqt : NoQueues.pqt, pqt_k : NoQueues.pqt_k,
              stochastic : NoQueues.stochastic,
              const_token : NoQueues.const_token ] :
        /\ c.pool => c.baseline = "R_e" /\ c.alpha = 50 /\ c.b_jumpstart
        /\ c.gp = "dropped" <=> c.epsilon = Some(25)
        /\ c.gp = "dropped" =>
               c.variant = "dsr" /\ c.baseline = "ewma_R" /\ ~c.pool }

VARIABLES
    cfg,            \* the arguments of learn
    pc,             \* the state of the orchestrator
    error,          \* the exception learn raised, None while it has raised none
    n_epochs,       \* line 242, None before it is computed
    epoch,          \* the loop variable, None while it is unbound
    nevals,         \* total number of sampled expressions
    cache,          \* Program.cache: key -> the canonical Program
    evaluations,    \* history: how often each key was numerically evaluated
    submitted,      \* history: how often each key went through from_tokens
    train_steps,    \* history: controller.train_step calls so far
    pool_state,     \* programs_to_optimize, the workers and their results
    full,           \* the epoch's full batch
    loc,            \* the epoch's locals after the risk-seeking filter
    sampled_batch,  \* the Batch handed to train_step
    best,           \* p_final, r_best, prev_r_best, p_r_best, ... across epochs
    memory_queue,   \* the memory queue, None when use_memory is False
    priority_queue, \* the priority queue, None when there is none
    stats,          \* the arguments of the epoch's logger.save_stats call
    events,         \* history: the calls of the current epoch, in order
    sample_calls,   \* history: controller.sample calls so far
    make_batch      \* the locals of a Batch builder run on prescribed token rows

vars == <<cfg, pc, error, n_epochs, epoch, nevals, cache, evaluations, submitted,
          train_steps, pool_state, full, loc, sampled_batch, best,
          memory_queue, priority_queue, stats, events, sample_calls, make_batch>>

(***************************************************************************)
(* Arrays.                                                                 *)
(***************************************************************************)
Range(f) == {f[i] : i \in DOMAIN f}
Vals(arr) == [i \in DOMAIN arr |-> arr[i].val]
RowsOf(arr) == [i \in DOMAIN arr |-> arr[i].row]
Array(vals) == [i \in DOMAIN vals |-> [row |-> i, val |-> vals[i]]]

\* arr[keep] of numpy and list(compress(arr, keep)): the entries whose mask
\* entry is True, in order.
RECURSIVE Compress(_, _)
Compress(arr, keep) ==
    IF arr = <<>> THEN <<>>
    ELSE LET n == Len(arr)
             init == Compress(SubSeq(arr, 1, n - 1), SubSeq(keep, 1, n - 1))
         IN  IF keep[n] THEN Append(init, arr[n]) ELSE init

\* np.max and np.argmax (the first index of the maximum, 1-based here).
SeqMax(vals) == CHOOSE m \in Range(vals) : \A i \in DOMAIN vals : vals[i] <= m
ArgMax(vals) == CHOOSE i \in DOMAIN vals :
                    /\ vals[i] = SeqMax(vals)
                    /\ \A j \in DOMAIN vals : vals[j] = SeqMax(vals) => i <= j
Max2(a, b) == IF a >= b THEN a ELSE b

\* np.clip(x, -1e6, 1e6)
Clip(x) == IF x > ClipBound THEN ClipBound
           ELSE IF x < 0 - ClipBound THEN 0 - ClipBound ELSE x
ClipArray(arr) == [i \in DOMAIN arr |-> [arr[i] EXCEPT !.val = Clip(@)]]

\* The entry at 0-based index k of sorted(vals).
KthSmallest(vals, k) ==
    CHOOSE v \in Range(vals) :
        /\ Cardinality({i \in DOMAIN vals : vals[i] < v}) <= k
        /\ k < Cardinality({i \in DOMAIN vals : vals[i] <= v})

\* np.quantile(r, 1 - epsilon, interpolation="higher"): the entry of the
\* sorted rewards at the virtual index (n - 1)*(1 - epsilon), rounded up.
CeilDiv(a, b) == (a + b - 1) \div b
EmpiricalQuantileLower(vals, eps) ==
    KthSmallest(vals, ((Len(vals) - 1) * (100 - eps)) \div 100)
EmpiricalQuantile(vals, eps) ==
    KthSmallest(vals, CeilDiv((Len(vals) - 1) * (100 - eps), 100))

\* The orders list(set(...)) can give the members of S.
Orderings(S) ==
    {q \in [1..Cardinality(S) -> S] : \A i, j \in DOMAIN q : q[i] = q[j] => i = j}

(***************************************************************************)
(* Rationals <<numerator, denominator>> for the means and the EWMA.  A     *)
(* denominator of 0 is NaN (np.mean of an empty array).                    *)
(***************************************************************************)
RECURSIVE GCD(_, _)
GCD(a, b) == IF b = 0 THEN a ELSE GCD(b, a % b)
Abs(x) == IF x < 0 THEN 0 - x ELSE x
NaN == <<0, 0>>
Rat(n, d) == IF d = 0 THEN NaN
             ELSE LET g == GCD(Abs(n), Abs(d))
                      sg == IF d < 0 THEN 0 - 1 ELSE 1
                  IN  <<(sg * n) \div g, (sg * d) \div g>>
RInt(n) == <<n, 1>>
RAdd(x, y) == Rat(x[1] * y[2] + y[1] * x[2], x[2] * y[2])
RSub(x, y) == Rat(x[1] * y[2] - y[1] * x[2], x[2] * y[2])
RMul(x, y) == Rat(x[1] * y[1], x[2] * y[2])

RECURSIVE SeqSum(_)
SeqSum(vals) == IF vals = <<>> THEN 0 ELSE Head(vals) + SeqSum(Tail(vals))
SeqMin(vals) == CHOOSE m \in Range(vals) : \A i \in DOMAIN vals : m <= vals[i]
\* np.mean
Mean(vals) == Rat(SeqSum(vals), Len(vals))

(***************************************************************************)
(* Programs.  A Program the controller sampled is the canonical object of  *)
(* Program.cache under its key; a Program of the GP meld (deap) is an      *)
(* object of its own that arrives evaluated.  cache[k].count = 0 stands    *)
(* for a key that is not in the cache.  cache[k].reward is the evaluated   *)
(* attribute: r in dso, base_r in dsr, None while "r" / "base_r" is not in *)
(* the Program's __dict__.                                                 *)
(***************************************************************************)
NoProgram == [count |-> 0, reward |-> None, constants |-> None]
Prog(k, deap) == [key |-> k, deap |-> deap]

\* What a numeric evaluation of key k returns in variant v (work, line 27-29).
WorkResult(v, k) ==
    [raised |-> TaskRaises(k),
     constants |-> TaskConstants(k),
     reward |-> IF v = "dso" THEN TaskReward(k) ELSE TaskBaseReward(k)]

\* from_tokens(a, optimize=False): the cached Program with count + 1, or a
\* new Program with count 1 and no reward.
FromTokens(c, k) == [c EXCEPT ![k].count = @ + 1]

\* p.set_constants(optimized_constants); p.r = r  (p.base_r = base_r).
SetResult(c, k, res) ==
    [c EXCEPT ![k].constants = Some(res.constants), ![k].reward = Some(res.reward)]

\* p.base_r, p.r, p.evaluate.get("success"), p.on_policy, len(p.traversal),
\* p.str and p.invalid of a Program p, read under cache c in variant v.
P_base_r(c, p) == IF p.deap THEN TaskBaseReward(p.key) ELSE Get(c[p.key].reward)
P_r(v, c, p) == IF v = "dso" THEN Get(c[p.key].reward)
                ELSE P_base_r(c, p) - TaskComplexity(p.key)
P_success(p) == TaskSuccess(p.key)
P_on_policy(p) == ~p.deap
P_len(p) == TaskLength(p.key)
P_str(p) == p.key
P_invalid(p) == TaskInvalid(p.key)

\* programs = [from_tokens(a, optimize=True, ...) for a in actions], serial
\* mode: a key in the cache gives the cached Program (count + 1) and no
\* numeric work; a new key is built, optimized and evaluated once.  acc is
\* [cache, evaluations, submitted, raised]; an exception ends the loop.
RECURSIVE SerialFromTokens(_, _, _)
SerialFromTokens(v, acc, ks) ==
    IF ks = <<>> \/ acc.raised THEN acc
    ELSE LET k == Head(ks)
             c1 == FromTokens(acc.cache, k)
             sub == [acc.submitted EXCEPT ![k] = @ + 1]
             res == WorkResult(v, k)
         IN  IF ~IsNone(acc.cache[k].reward)
             THEN SerialFromTokens(v, [acc EXCEPT !.cache = c1, !.submitted = sub],
                                   Tail(ks))
             ELSE SerialFromTokens(v,
                     [cache |-> IF res.raised THEN c1 ELSE SetResult(c1, k, res),
                      evaluations |-> [acc.evaluations EXCEPT ![k] = @ + 1],
                      submitted |-> sub,
                      raised |-> res.raised],
                     Tail(ks))

(***************************************************************************)
(* The queues of make_queue.  An item is [key, reward]: the str of the     *)
(* Program and its score.  A queue is [items, evicted]: the stored items,  *)
(* oldest first, and the history of the rewards of the items it evicted.   *)
(***************************************************************************)
EmptyQueue == [items |-> <<>>, evicted |-> <<>>]
Item(k, r) == [key |-> k, reward |-> r]
UniqueItems(q) == {q.items[i].key : i \in DOMAIN q.items}
RemoveAt(seq, i) == SubSeq(seq, 1, i - 1) \o SubSeq(seq, i + 1, Len(seq))

\* An eviction of the oldest item, whatever its reward.
LowestIsOldest(items) == 1

\* The index of the item to evict: one of lowest reward, the oldest of them.
Lowest(items) ==
    CHOOSE i \in DOMAIN items :
        /\ \A j \in DOMAIN items : items[i].reward <= items[j].reward
        /\ \A j \in DOMAIN items : items[j].reward = items[i].reward => i <= j

\* push: an item whose key is stored is not inserted again; beyond the
\* capacity the item of lowest reward is evicted.
QueuePush(q, capacity, item) ==
    IF item.key \in UniqueItems(q) THEN q
    ELSE LET all == Append(q.items, item)
         IN  IF Len(all) <= capacity THEN [q EXCEPT !.items = all]
             ELSE [items |-> RemoveAt(all, Lowest(all)),
                   evicted |-> Append(q.evicted, all[Lowest(all)].reward)]

\* push_batch(sampled_batch, programs) and push_best(sampled_batch, programs):
\* row j of the Batch's rewards is the score of programs[j]; the rows are
\* pushed in order as long as the Batch has a row for the program.
RECURSIVE PushRows(_, _, _, _, _)
PushRows(q, capacity, rewards, programs, j) ==
    IF j > Len(programs) \/ j > Len(rewards) THEN q
    ELSE PushRows(QueuePush(q, capacity, Item(P_str(programs[j].val), rewards[j].val)),
                  capacity, rewards, programs, j + 1)
PushBatch(q, capacity, rewards, programs) == PushRows(q, capacity, rewards, programs, 1)
PushBest(q, k, rewards, programs) == PushRows(q, k, rewards, programs, 1)

\* get_rewards()
GetRewards(q) == [i \in DOMAIN q.items |-> q.items[i].reward]

\* compute_probs(): a weight per stored item, monotone in its reward; the
\* weights sum to at most 1 (slack is the mass left outside the memory).
ProbScore(r) == 1 + (IF r < 0 THEN 0 ELSE IF r > NKeys + 1 THEN NKeys + 1 ELSE r)
ComputeProbs(q, slack) ==
    LET total == SeqSum([i \in DOMAIN q.items |-> ProbScore(q.items[i].reward)])
    IN  [i \in DOMAIN q.items |-> Rat(ProbScore(q.items[i].reward), total + slack)]

\* weighted_quantile(values, weights, q): the values sorted, the value that
\* ends the smallest prefix whose cumulative weight reaches q (a percentage).
RECURSIVE RSum(_)
RSum(ws) == IF ws = <<>> THEN RInt(0) ELSE RAdd(Head(ws), RSum(Tail(ws)))
RGeq(x, y) == x[1] * y[2] >= y[1] * x[2]
CumWeight(values, weights, v) ==
    RSum(Compress(weights, [i \in DOMAIN values |-> values[i] <= v]))
WeightedQuantile(values, weights, q) ==
    CHOOSE v \in Range(values) :
        /\ RGeq(CumWeight(values, weights, v), Rat(q, 100))
        /\ \A u \in Range(values) :
               RGeq(CumWeight(values, weights, u), Rat(q, 100)) => v <= u

(***************************************************************************)
(* The state on entry to learn.                                            *)
(***************************************************************************)
NoStats == [r_full |-> <<>>, base_r_full |-> <<>>, l_full |-> <<>>,
            actions_full |-> <<>>, s_full |-> <<>>, invalid_full |-> <<>>,
            r |-> <<>>, l |-> <<>>, actions |-> <<>>, s |-> <<>>,
            invalid |-> <<>>, epoch |-> None]
NoPool == [tasks |-> <<>>, results |-> <<>>, completed |-> <<>>, serial |-> None]
NoFull == [actions |-> <<>>, obs |-> <<>>, priors |-> <<>>, programs |-> <<>>,
           deap_programs |-> <<>>, r |-> <<>>, base_r |-> <<>>, l |-> <<>>,
           s |-> <<>>, invalid |-> <<>>, on_policy |-> <<>>, success |-> None,
           r_max |-> None, base_r_max |-> None]
NoLoc == [keep |-> None, quantile |-> None, actions |-> <<>>, obs |-> <<>>,
          priors |-> <<>>, programs |-> <<>>, p_train |-> <<>>, r |-> <<>>,
          r_train |-> <<>>, base_r |-> <<>>, l |-> <<>>, s |-> <<>>,
          invalid |-> <<>>, on_policy |-> <<>>, b_train |-> None,
          unique_programs |-> <<>>, memory_r |-> <<>>, memory_w |-> <<>>,
          combined_r |-> <<>>, combined_w |-> <<>>, warned |-> FALSE]
NoBatch == [actions |-> <<>>, obs |-> <<>>, priors |-> <<>>, lengths |-> <<>>,
            rewards |-> <<>>, on_policy |-> <<>>]
\* The locals of a Batch builder before its loop: kind "none" while no
\* builder runs on prescribed rows.
\* lengths = np.zeros(batch_size); finished = np.zeros(batch_size);
\* dangling = np.ones(batch_size)
MakeBatchStart(kind, actions) ==
    [kind |-> kind, actions |-> actions, i |-> 0,
     dangling |-> [r \in DOMAIN actions |-> 1],
     finished |-> [r \in DOMAIN actions |-> FALSE],
     lengths |-> [r \in DOMAIN actions |-> 0], built |-> FALSE]
NoBest == [p_final |-> None, r_best |-> None, prev_r_best |-> None,
           p_r_best |-> None, base_r_best |-> None, prev_base_r_best |-> None,
           p_base_r_best |-> None, ewma |-> None, result |-> None]

InitWith(configs) ==
    /\ cfg \in configs
    /\ pc = "INIT"
    /\ error = None
    /\ n_epochs = None
    /\ epoch = None
    /\ nevals = 0
    /\ cache = [k \in Keys |-> NoProgram]
    /\ evaluations = [k \in Keys |-> 0]
    /\ submitted = [k \in Keys |-> 0]
    /\ train_steps = 0
    /\ pool_state = NoPool
    /\ full = NoFull
    /\ loc = NoLoc
    /\ sampled_batch = NoBatch
    /\ best = NoBest
    /\ memory_queue = None
    /\ priority_queue = None
    /\ stats = NoStats
    /\ events = <<>>
    /\ sample_calls = 0
    /\ make_batch = MakeBatchStart("none", <<>>)

\* learn raises: control leaves the function with the exception.
Raise(e) == pc' = "RAISED" /\ error' = Some(e)

(***************************************************************************)
(* INIT: the configuration assertions and the set-up before the loop.      *)
(* The run has no priority queue (controller.pqt is False) and no memory   *)
(* queue (use_memory is False); the task is not stochastic.                *)
(***************************************************************************)
\* n_epochs = n_epochs if n_epochs is not None else int(n_samples / batch_size)
NEpochs(c) == IF ~IsNone(c.n_epochs) THEN Get(c.n_epochs)
              ELSE Get(c.n_samples) \div c.batch_size

\* An EWMA that starts at 0.0 whatever b_jumpstart is.
InitialEwmaZero(c) == Some(RInt(0))

\* ewma = None if b_jumpstart else 0.0
InitialEwma(c) == IF c.b_jumpstart THEN None ELSE Some(RInt(0))

\* assert n_samples is None or n_epochs is None  (line 164)
ConfigAssert(c) == IsNone(c.n_samples) \/ IsNone(c.n_epochs)

\* if controller.pqt and k is not None and k > 0
HasPriorityQueue(c) == c.pqt /\ ~IsNone(c.pqt_k) /\ Get(c.pqt_k) > 0

\* A priority queue made as large as a batch.
PriorityCapacityBatch(c) == c.batch_size

\* priority_queue = make_queue(priority=True, capacity=k)
PriorityCapacity(c) == Get(c.pqt_k)

\* A set-up that creates the memory queue whatever epsilon is.
MemoryAssertLax(c) == TRUE

\* if use_memory: assert epsilon is not None and epsilon < 1.0
MemoryAssert(c) == c.use_memory => (~IsNone(c.epsilon) /\ Get(c.epsilon) < 100)

\* if Program.task.stochastic: assert Program.library.const_token is None
StochasticAssert(c) == c.stochastic => ~c.const_token

\* warm_start = warm_start if warm_start is not None else batch_size
WarmStart(c) == IF ~IsNone(c.warm_start) THEN Get(c.warm_start) ELSE c.batch_size

\* actions, obs, priors = controller.sample(warm_start)
WarmStartSamples(c) ==
    IF c.use_memory THEN [1..WarmStart(c) -> c.sample_keys] ELSE {<<>>}

\* A warm start into a queue made as large as the warm-start batch.
WarmMemoryBatchSized(c, ch, a) ==
    LET progs == [i \in DOMAIN a |-> Prog(a[i], FALSE)]
        r == [i \in DOMAIN a |-> P_r(c.variant, ch, progs[i])]
    IN  PushBatch(EmptyQueue, Len(a), Array(r), Array(progs))

\* The memory queue after the warm start: the Programs of the warm-start
\* batch pushed with their rewards.
WarmMemory(c, ch, a) ==
    LET progs == [i \in DOMAIN a |-> Prog(a[i], FALSE)]
        r == [i \in DOMAIN a |-> P_r(c.variant, ch, progs[i])]
    IN  PushBatch(EmptyQueue, c.memory_capacity, Array(r), Array(progs))

Initialize ==
    /\ pc = "INIT"
    /\ UNCHANGED <<make_batch, cfg, epoch, nevals, train_steps, pool_state, full, loc,
                   sampled_batch, stats, events>>
    /\ IF ~ConfigAssert(cfg)
       THEN /\ Raise("AssertionError")
            /\ UNCHANGED <<n_epochs, best, cache, evaluations, submitted,
                           memory_queue, priority_queue, sample_calls>>
       ELSE /\ priority_queue' = IF HasPriorityQueue(cfg) THEN Some(EmptyQueue) ELSE None
            /\ IF ~MemoryAssert(cfg)
               THEN /\ Raise("AssertionError")
                    /\ UNCHANGED <<n_epochs, best, cache, evaluations, submitted,
                                   memory_queue, sample_calls>>
               ELSE \E a \in WarmStartSamples(cfg) :
                    LET acc == SerialFromTokens(cfg.variant,
                                   [cache |-> cache, evaluations |-> evaluations,
                                    submitted |-> submitted, raised |-> FALSE], a)
                    IN  /\ cache' = acc.cache
                        /\ evaluations' = acc.evaluations
                        /\ submitted' = acc.submitted
                        /\ sample_calls' = IF cfg.use_memory THEN 1 ELSE 0
                        /\ IF acc.raised
                           THEN /\ Raise("Exception")
                                /\ memory_queue' = Some(EmptyQueue)
                                /\ UNCHANGED <<n_epochs, best>>
                           ELSE /\ memory_queue' = IF cfg.use_memory
                                                   THEN Some(WarmMemory(cfg, acc.cache, a))
                                                   ELSE None
                                /\ IF ~StochasticAssert(cfg)
                                   THEN Raise("AssertionError") /\ UNCHANGED <<n_epochs, best>>
                                   ELSE IF IsNone(cfg.n_epochs) /\ IsNone(cfg.n_samples)
                                   THEN Raise("TypeError")      \* None / batch_size
                                        /\ UNCHANGED <<n_epochs, best>>
                                   ELSE /\ n_epochs' = Some(NEpochs(cfg))
                                        /\ best' = [best EXCEPT !.ewma = InitialEwma(cfg)]
                                        /\ pc' = "LOOP"
                                        /\ UNCHANGED error

\* for epoch in range(n_epochs)
NextEpoch == IF IsNone(epoch) THEN 0 ELSE Get(epoch) + 1

LoopHead ==
    /\ pc = "LOOP"
    /\ UNCHANGED <<make_batch, cfg, error, n_epochs, nevals, cache, evaluations, submitted,
                   train_steps, pool_state, full, loc, sampled_batch, best,
                   memory_queue, priority_queue, stats, sample_calls>>
    /\ IF NextEpoch < Get(n_epochs)
       THEN epoch' = Some(NextEpoch) /\ pc' = "SAMPLING" /\ events' = <<>>
       ELSE UNCHANGED <<epoch, events>> /\ pc' = "FINISH"

(***************************************************************************)
(* SAMPLING: controller.sample(batch_size) and the call of the GP meld.    *)
(* An action row, its three observation rows and its prior row all encode  *)
(* the sampled traversal, so each carries the key.                         *)
(***************************************************************************)
RunGPMeld(c) == c.gp # "none"

Sample ==
    /\ pc = "SAMPLING"
    /\ \E a \in [1..cfg.batch_size -> cfg.sample_keys] :
       \E d \in IF RunGPMeld(cfg) THEN {<<k>> : k \in cfg.sample_keys \cap GoodKeys}
                ELSE {<<>>} :
          /\ full' = [NoFull EXCEPT !.actions = Array(a),
                                    !.obs = <<Array(a), Array(a), Array(a)>>,
                                    !.priors = Array(a),
                                    !.deap_programs = d]
          /\ nevals' = nevals + cfg.batch_size
                         + (IF RunGPMeld(cfg) THEN cfg.gp_nevals ELSE 0)
    /\ pc' = "EVALUATING"
    /\ loc' = NoLoc
    /\ sampled_batch' = NoBatch
    /\ pool_state' = NoPool
    /\ stats' = NoStats
    /\ events' = Append(events, "sample")
    /\ sample_calls' = sample_calls + 1
    /\ UNCHANGED <<make_batch, cfg, error, n_epochs, epoch, cache, evaluations, submitted,
                   train_steps, best, memory_queue, priority_queue>>

(***************************************************************************)
(* EVALUATING.                                                             *)
(***************************************************************************)
\* programs = [from_tokens(a, optimize=False, ...) for a in actions], pool mode.
RECURSIVE PoolFromTokens(_, _)
PoolFromTokens(acc, ks) ==
    IF ks = <<>> THEN acc
    ELSE PoolFromTokens([acc EXCEPT !.cache = FromTokens(@, Head(ks)),
                                    !.submitted[Head(ks)] = @ + 1],
                        Tail(ks))

\* A filter that lets every Program of the batch through.
ProgramsToOptimizeAll(c, ks) == Range(ks)

\* set([p for p in programs if "r" not in p.__dict__])
\* (dsr: if "base_r" not in p.__dict__)
ProgramsToOptimize(c, ks) == {k \in Range(ks) : IsNone(c[k].reward)}

\* Results taken in the order the workers completed (as imap_unordered gives).
ResultForCompletionOrder(ps, j) == Get(ps.results[ps.completed[j]])

\* The result zip pairs with programs_to_optimize[j]: pool.map returns the
\* results in the order of its inputs.
ResultFor(ps, j) == Get(ps.results[j])

\* for (optimized_constants, r), p in zip(results, programs_to_optimize):
\*     p.set_constants(optimized_constants); p.r = r
RECURSIVE ApplyResults(_, _, _)
ApplyResults(c, ps, j) ==
    IF j > Len(ps.tasks) THEN c
    ELSE ApplyResults(SetResult(c, ps.tasks[j], ResultFor(ps, j)), ps, j + 1)

\* The GP meld's rows appended to the batch, and the metrics of the full
\* batch under cache c (dso 284-320, dsr 345-400).
Retrieved(c, f) ==
    LET v == cfg.variant
        a == Vals(f.actions) \o f.deap_programs
        progs == [i \in DOMAIN a |-> Prog(a[i], i > Len(f.actions))]
        rv == [i \in DOMAIN a |-> P_r(v, c, progs[i])]
        bv == [i \in DOMAIN a |-> P_base_r(c, progs[i])]
    IN  [f EXCEPT !.programs = Array(progs),
                  !.actions = Array(a),
                  !.obs = <<Array(a), Array(a), Array(a)>>,
                  !.priors = Array(a),
                  !.r = Array(rv),
                  !.base_r = IF v = "dsr" THEN Array(bv) ELSE <<>>,
                  !.l = Array([i \in DOMAIN a |-> P_len(progs[i])]),
                  !.s = Array([i \in DOMAIN a |-> P_str(progs[i])]),
                  !.on_policy = Array([i \in DOMAIN a |-> P_on_policy(progs[i])]),
                  !.invalid = Array([i \in DOMAIN a |-> P_invalid(progs[i])]),
                  !.success = IF cfg.eval_all
                              THEN Some([i \in DOMAIN a |-> P_success(progs[i])])
                              ELSE None,
                  !.r_max = Some(SeqMax(rv)),
                  !.base_r_max = IF v = "dsr" THEN Some(SeqMax(bv)) ELSE None]

\* any(success) and success.index(True)
AnySuccess(f) == ~IsNone(f.success) /\ \E i \in DOMAIN Get(f.success) : Get(f.success)[i]
FirstSuccess(f) == CHOOSE i \in DOMAIN Get(f.success) :
                       /\ Get(f.success)[i]
                       /\ \A j \in DOMAIN Get(f.success) : Get(f.success)[j] => i <= j

\* p_final, r_best = max(r_max, r_best), base_r_best = max(base_r_max, base_r_best)
BestAfterRetrieve(b, f) ==
    [b EXCEPT !.p_final = IF cfg.eval_all /\ AnySuccess(f)
                          THEN Some(f.programs[FirstSuccess(f)].val) ELSE @,
              !.r_best = IF IsNone(@) THEN f.r_max
                         ELSE Some(Max2(Get(f.r_max), Get(@))),
              !.base_r_best = IF cfg.variant = "dso" THEN @
                              ELSE IF IsNone(@) THEN f.base_r_max
                              ELSE Some(Max2(Get(f.base_r_max), Get(@)))]

\* A loop that breaks where the success is detected.
AfterRetrieveBreak(f) ==
    IF cfg.eval_all /\ AnySuccess(f) THEN "FINISH" ELSE "FILTERING"

\* if any(success): p_final = programs[success.index(True)] -- "Check for
\* success before risk-seeking, but don't break until after": control goes
\* on to the filter.
AfterRetrieve(f) == "FILTERING"

EvaluateSerial ==
    /\ pc = "EVALUATING"
    /\ ~cfg.pool
    /\ LET acc == SerialFromTokens(cfg.variant,
                     [cache |-> cache, evaluations |-> evaluations,
                      submitted |-> submitted, raised |-> FALSE],
                     Vals(full.actions))
       IN  /\ cache' = acc.cache
           /\ evaluations' = acc.evaluations
           /\ submitted' = acc.submitted
           /\ IF acc.raised
              THEN Raise("Exception") /\ UNCHANGED <<full, best, events>>
              ELSE /\ full' = Retrieved(acc.cache, full)
                   /\ best' = BestAfterRetrieve(best, full')
                   /\ events' = Append(events, "evaluate")
                   /\ pc' = AfterRetrieve(full')
                   /\ UNCHANGED error
    /\ UNCHANGED <<make_batch, cfg, n_epochs, epoch, nevals, train_steps, pool_state, loc,
                   sampled_batch, memory_queue, priority_queue, stats, sample_calls>>

\* Lines 271-278: the Programs are generated serially, and pool.map is
\* called with the Programs that have no reward yet.  The field serial is a
\* history field: what line 264 (the serial branch) makes of the same batch
\* from the same cache, kept for the comparison of the two branches.
Instantiate ==
    /\ pc = "EVALUATING"
    /\ cfg.pool
    /\ LET acc == PoolFromTokens([cache |-> cache, submitted |-> submitted],
                                 Vals(full.actions))
           ser == SerialFromTokens(cfg.variant,
                     [cache |-> cache, evaluations |-> evaluations,
                      submitted |-> submitted, raised |-> FALSE],
                     Vals(full.actions))
       IN  /\ cache' = acc.cache
           /\ submitted' = acc.submitted
           /\ \E q \in Orderings(ProgramsToOptimize(acc.cache, Vals(full.actions))) :
                 pool_state' = [tasks |-> q,
                                results |-> [i \in DOMAIN q |-> None],
                                completed |-> <<>>,
                                serial |-> Some([cache |-> ser.cache,
                                                 evaluations |-> ser.evaluations,
                                                 submitted |-> ser.submitted,
                                                 raised |-> ser.raised,
                                                 full |-> IF ser.raised THEN NoFull
                                                          ELSE Retrieved(ser.cache, full)])]
    /\ pc' = "POOL"
    /\ UNCHANGED <<make_batch, cfg, error, n_epochs, epoch, nevals, evaluations, train_steps,
                   full, loc, sampled_batch, best, memory_queue, priority_queue,
                   stats, events, sample_calls>>

\* A worker that works on the canonical Program: its constants and reward
\* are set in the cache as soon as the worker has them.
WorkerShared(i) ==
    /\ pc = "POOL"
    /\ i \in DOMAIN pool_state.tasks
    /\ IsNone(pool_state.results[i])
    /\ pool_state' = [pool_state EXCEPT
                         !.results[i] = Some(WorkResult(cfg.variant, pool_state.tasks[i])),
                         !.completed = Append(@, i)]
    /\ evaluations' = [evaluations EXCEPT ![pool_state.tasks[i]] = @ + 1]
    /\ cache' = SetResult(cache, pool_state.tasks[i],
                          WorkResult(cfg.variant, pool_state.tasks[i]))
    /\ UNCHANGED <<make_batch, cfg, pc, error, n_epochs, epoch, nevals, submitted,
                   train_steps, full, loc, sampled_batch, best, memory_queue,
                   priority_queue, stats, events, sample_calls>>

\* A worker that hands back a result for task i while the evaluation of the
\* task has not run.
WorkerDetached(i) ==
    /\ pc = "POOL"
    /\ i \in DOMAIN pool_state.tasks
    /\ IsNone(pool_state.results[i])
    /\ pool_state' = [pool_state EXCEPT
                         !.results[i] = Some(WorkResult(cfg.variant, pool_state.tasks[i])),
                         !.completed = Append(@, i)]
    /\ UNCHANGED <<make_batch, cfg, pc, error, n_epochs, epoch, nevals, cache, submitted,
                   train_steps, full, loc, sampled_batch, best, memory_queue,
                   priority_queue, stats, events, sample_calls, evaluations>>

\* A worker runs work(p) on its copy of task i: the constants and the reward
\* go into the result, the canonical Program and the cache are not touched.
Worker(i) ==
    /\ pc = "POOL"
    /\ i \in DOMAIN pool_state.tasks
    /\ IsNone(pool_state.results[i])
    /\ pool_state' = [pool_state EXCEPT
                         !.results[i] = Some(WorkResult(cfg.variant, pool_state.tasks[i])),
                         !.completed = Append(@, i)]
    /\ evaluations' = [evaluations EXCEPT ![pool_state.tasks[i]] = @ + 1]
    /\ UNCHANGED <<make_batch, cfg, pc, error, n_epochs, epoch, nevals, cache, submitted,
                   train_steps, full, loc, sampled_batch, best, memory_queue,
                   priority_queue, stats, events, sample_calls>>

\* pool.map returns (or raises the exception of a task) and the results are
\* set on the canonical Programs.
Join ==
    /\ pc = "POOL"
    /\ \A i \in DOMAIN pool_state.tasks : ~IsNone(pool_state.results[i])
    /\ IF \E i \in DOMAIN pool_state.tasks : Get(pool_state.results[i]).raised
       THEN Raise("Exception") /\ UNCHANGED <<cache, full, best, events>>
       ELSE /\ cache' = ApplyResults(cache, pool_state, 1)
            /\ full' = Retrieved(cache', full)
            /\ best' = BestAfterRetrieve(best, full')
            /\ events' = Append(events, "evaluate")
            /\ pc' = AfterRetrieve(full')
            /\ UNCHANGED error
    /\ UNCHANGED <<make_batch, cfg, n_epochs, epoch, nevals, evaluations, submitted,
                   train_steps, pool_state, loc, sampled_batch, memory_queue,
                   priority_queue, stats, sample_calls>>

(***************************************************************************)
(* FILTERING: the risk-seeking filter (dso 326-369, dsr 412-499).          *)
(***************************************************************************)
\* if epsilon is not None and epsilon < 1.0
RiskSeeking(c) == ~IsNone(c.epsilon) /\ Get(c.epsilon) < 100

\* The memory-augmented quantile (dso 328-355, dsr 414-442).
\* unique_programs = [p for p in programs if p.str not in memory_queue.unique_items]
UniquePrograms(f, q) ==
    Compress(f.programs,
             [i \in DOMAIN f.programs |-> P_str(f.programs[i].val) \notin UniqueItems(q)])

\* sample_r = [p.r for p in unique_programs]
SampleR(f, u) == [j \in DOMAIN u |-> f.r[u[j].row].val]

\* Sample weights that split the whole mass, whatever the memory holds.
SampleWeightsWhole(mw, N) == [j \in 1..N |-> Rat(1, N)]

\* sample_w = np.repeat((1 - memory_w.sum()) / N, N)
SampleWeights(mw, N) ==
    [j \in 1..N |-> RMul(RSub(RInt(1), RSum(mw)), Rat(1, N))]

\* combined_w = memory_w / memory_w.sum() if N == 0
\*              else np.concatenate([memory_w, sample_w])
RDiv(x, y) == Rat(x[1] * y[2], x[2] * y[1])
CombinedWeights(mw, N) ==
    IF N = 0 THEN [i \in DOMAIN mw |-> RDiv(mw[i], RSum(mw))]
    ELSE mw \o SampleWeights(mw, N)

\* The locals of the memory-augmented quantile.
MemoryLocals(f) ==
    LET q == Get(memory_queue)
        u == UniquePrograms(f, q)
        mw == ComputeProbs(q, cfg.memory_slack)
    IN  [unique_programs |-> u,
         memory_r |-> GetRewards(q),
         memory_w |-> mw,
         combined_r |-> GetRewards(q) \o SampleR(f, u),
         combined_w |-> CombinedWeights(mw, Len(u)),
         warned |-> Len(u) = 0]

\* quantile = weighted_quantile(values=combined_r, weights=combined_w, q=1 - epsilon)
\* quantile = np.quantile(r, 1 - epsilon, interpolation="higher")
Quantile(f) ==
    IF cfg.use_memory
    THEN WeightedQuantile(MemoryLocals(f).combined_r, MemoryLocals(f).combined_w,
                          100 - Get(cfg.epsilon))
    ELSE EmpiricalQuantile(Vals(f.r), Get(cfg.epsilon))

\* keep = r >= quantile  (dso 360);  keep = base_r >= quantile  (dsr 457)
KeepMask(f, q) ==
    IF cfg.variant = "dso" THEN [i \in DOMAIN f.r |-> f.r[i].val >= q]
    ELSE [i \in DOMAIN f.base_r |-> f.base_r[i].val >= q]

\* keep[batch_size:] = False  (dsr 474)
NarrowKeep(keep) == [i \in DOMAIN keep |-> keep[i] /\ i <= cfg.batch_size]

\* if run_gp_meld and not gp_controller.return_gp_obs  (dsr 464)
DropGP(c) == c.gp = "dropped"

\* actions, obs, priors and on_policy indexed with the mask as it was before
\* the GP rows were cut from it.
FinalKeepWide(keep) == keep

\* The mask that selects r_train and p_train, and the value the variable keep
\* has when actions, obs, priors and on_policy are indexed with it.
TrainMask(keep) == IF DropGP(cfg) THEN NarrowKeep(keep) ELSE keep
FinalKeep(keep) == IF DropGP(cfg) THEN NarrowKeep(keep) ELSE keep

Filtered(f) ==
    IF ~RiskSeeking(cfg)
    THEN [NoLoc EXCEPT !.actions = f.actions, !.obs = f.obs, !.priors = f.priors,
                       !.programs = f.programs, !.p_train = f.programs,
                       !.r = f.r, !.r_train = f.r, !.base_r = f.base_r,
                       !.l = f.l, !.s = f.s, !.invalid = f.invalid,
                       !.on_policy = f.on_policy]
    ELSE LET q == Quantile(f)
             keep == KeepMask(f, q)
             m == IF cfg.use_memory THEN MemoryLocals(f)
                  ELSE [unique_programs |-> <<>>, memory_r |-> <<>>,
                        memory_w |-> <<>>, combined_r |-> <<>>,
                        combined_w |-> <<>>, warned |-> FALSE]
         IN  [NoLoc EXCEPT
                 !.unique_programs = m.unique_programs,
                 !.memory_r = m.memory_r,
                 !.memory_w = m.memory_w,
                 !.combined_r = m.combined_r,
                 !.combined_w = m.combined_w,
                 !.warned = m.warned,
                 !.quantile = Some(q),
                 !.keep = Some(FinalKeep(keep)),
                 !.base_r = Compress(f.base_r, keep),
                 !.l = Compress(f.l, keep),
                 !.s = Compress(f.s, keep),
                 !.invalid = Compress(f.invalid, keep),
                 !.r = Compress(f.r, keep),
                 !.programs = Compress(f.programs, keep),
                 !.r_train = Compress(f.r, TrainMask(keep)),
                 !.p_train = Compress(f.programs, TrainMask(keep)),
                 !.actions = Compress(f.actions, FinalKeep(keep)),
                 !.obs = [j \in DOMAIN f.obs |-> Compress(f.obs[j], FinalKeep(keep))],
                 !.priors = Compress(f.priors, FinalKeep(keep)),
                 !.on_policy = Compress(f.on_policy, FinalKeep(keep))]

Filter ==
    /\ pc = "FILTERING"
    /\ loc' = Filtered(full)
    /\ events' = Append(events, "filter")
    /\ pc' = "UPDATING"
    /\ UNCHANGED <<make_batch, cfg, error, n_epochs, epoch, nevals, cache, evaluations,
                   submitted, train_steps, pool_state, full, sampled_batch, best,
                   memory_queue, priority_queue, stats, sample_calls>>

(***************************************************************************)
(* UPDATING (dso 371-427, dsr 501-560).                                    *)
(***************************************************************************)
\* The baseline: [raised, ewma, b_train].  alpha is a percentage.  The
\* quantile is unbound when the risk-seeking filter did not run.
Ewma(old, x) ==
    IF IsNone(old) THEN x
    ELSE RAdd(RMul(Rat(cfg.alpha, 100), x), RMul(Rat(100 - cfg.alpha, 100), Get(old)))

\* A baseline that hands on the value R_e gives ewma (-1) as b_train.
BaselineMinusOne(l, old) ==
    [raised |-> None, ewma |-> Some(RInt(0 - 1)), b_train |-> Some(RInt(0 - 1))]

Baseline(l, old) ==
    LET rt == Vals(l.r_train)
        unboundQ == IsNone(l.quantile)
        q == RInt(Get(l.quantile))
        ok(e, b) == [raised |-> None, ewma |-> Some(e), b_train |-> Some(b)]
        fail(e) == [raised |-> Some(e), ewma |-> old, b_train |-> None]
    IN  CASE cfg.baseline = "ewma_R" ->
                 ok(Ewma(old, Mean(rt)), Ewma(old, Mean(rt)))
          [] cfg.baseline = "R_e" ->
                 IF unboundQ THEN fail("UnboundLocalError") ELSE ok(RInt(0 - 1), q)
          [] cfg.baseline = "ewma_R_e" ->
                 IF IsNone(old)
                 THEN IF rt = <<>> THEN fail("ValueError")
                      ELSE ok(RInt(SeqMin(rt)), RInt(SeqMin(rt)))
                 ELSE IF unboundQ THEN fail("UnboundLocalError")
                      ELSE ok(Ewma(old, q), Ewma(old, q))
          [] cfg.baseline = "combined" ->
                 IF unboundQ THEN fail("UnboundLocalError")
                 ELSE ok(Ewma(old, RSub(Mean(rt), q)),
                         RAdd(q, Ewma(old, RSub(Mean(rt), q))))

\* lengths = [min(len(p.traversal), controller.max_length) for p in p_train]
Lengths(p_train) ==
    [j \in DOMAIN p_train |->
        [row |-> p_train[j].row,
         val |-> IF P_len(p_train[j].val) < MaxLength THEN P_len(p_train[j].val)
                 ELSE MaxLength]]

\* Batch(actions=actions, obs=obs, priors=priors, lengths=lengths,
\*       rewards=r_train, on_policy=on_policy)
MakeBatch(l) ==
    [actions |-> l.actions, obs |-> l.obs, priors |-> l.priors,
     lengths |-> Lengths(l.p_train), rewards |-> l.r_train,
     on_policy |-> l.on_policy]

\* Update new best expression (dso 420-427, dsr 547-560).
NewRBest(b, f) == IsNone(b.prev_r_best) \/ Get(f.r_max) > Get(b.prev_r_best)
NewBaseRBest(b, f) ==
    IsNone(b.prev_base_r_best) \/ Get(f.base_r_max) > Get(b.prev_base_r_best)

BestAfterUpdate(b, f, l) ==
    [b EXCEPT !.p_r_best = IF NewRBest(b, f)
                           THEN Some(l.programs[ArgMax(Vals(l.r))].val) ELSE @,
              !.p_base_r_best = IF cfg.variant = "dsr" /\ NewBaseRBest(b, f)
                                THEN Some(l.programs[ArgMax(Vals(l.base_r))].val)
                                ELSE @,
              !.prev_r_best = b.r_best,
              !.prev_base_r_best = b.base_r_best]

\* An update that pushes into both queues before it trains; an update that
\* trains on the Batch and on the priority-queue batch in two calls of
\* train_step.
\*
\* The calls between the Batch and the end of the update, in the order of
\* the code: push_best and sample_batch (dso 399-401), train_step (406),
\* save_stats (412), push_batch (417-418), the best update (421-427).
UpdateEventsMemoryFirst(c) ==
    (IF HasPriorityQueue(c) THEN <<"push_best", "sample_batch">> ELSE <<>>)
    \o (IF c.use_memory THEN <<"push_batch">> ELSE <<>>)
    \o <<"train_step", "save_stats">>

UpdateEventsTwoSteps(c) ==
    IF HasPriorityQueue(c)
    THEN <<"push_best", "sample_batch", "train_step", "train_step", "save_stats">>
         \o (IF c.use_memory THEN <<"push_batch">> ELSE <<>>)
    ELSE <<"train_step", "save_stats">>
         \o (IF c.use_memory THEN <<"push_batch">> ELSE <<>>)

UpdateEvents(c) ==
    (IF HasPriorityQueue(c) THEN <<"push_best", "sample_batch">> ELSE <<>>)
    \o <<"train_step", "save_stats">>
    \o (IF c.use_memory THEN <<"push_batch">> ELSE <<>>)

Count(seq, e) == Cardinality({i \in DOMAIN seq : seq[i] = e})

\* Full metrics that alias the arrays the filter and the clamp work on.
FullMetricsAliased(f, l) ==
    [r_full |-> l.r, base_r_full |-> l.base_r, l_full |-> l.l,
     actions_full |-> l.actions, s_full |-> l.s, invalid_full |-> l.invalid]

\* r_full = r, l_full = l, s_full = s, actions_full = actions,
\* invalid_full = invalid (dso 314-318; dsr 392-397 with base_r_full), as
\* save_stats receives them.
FullMetrics(f, l) ==
    [r_full |-> f.r, base_r_full |-> f.base_r, l_full |-> f.l,
     actions_full |-> f.actions, s_full |-> f.s, invalid_full |-> f.invalid]

\* logger.save_stats(r_full, l_full, actions_full, s_full, invalid_full, r, l,
\*                   actions, s, invalid, ..., epoch, ...)
SaveStats(f, l) ==
    LET m == FullMetrics(f, l)
    IN  [r_full |-> m.r_full, base_r_full |-> m.base_r_full, l_full |-> m.l_full,
         actions_full |-> m.actions_full, s_full |-> m.s_full,
         invalid_full |-> m.invalid_full,
         r |-> l.r, l |-> l.l, actions |-> l.actions, s |-> l.s,
         invalid |-> l.invalid, epoch |-> epoch]

\* np.argmax of an empty array, where the best update reads it.
ArgMaxOfEmpty(b, f, l) ==
    \/ NewRBest(b, f) /\ l.r = <<>>
    \/ cfg.variant = "dsr" /\ NewBaseRBest(b, f) /\ l.base_r = <<>>

\* The calls of the epoch up to and including its first push.
ThroughFirstPush(ev) ==
    LET pushes == {i \in DOMAIN ev : ev[i] \in {"push_best", "push_batch"}}
    IN  SubSeq(ev, 1, CHOOSE i \in pushes : \A j \in pushes : i <= j)

\* A push is given more programs than the Batch has rows: the queue either
\* raises on the first program without a row (strict) or stops there.
PushOutcomes(c, batch, programs) ==
    IF (HasPriorityQueue(c) \/ c.use_memory) /\ Len(programs) > Len(batch.rewards)
    THEN BOOLEAN ELSE {FALSE}

Update ==
    /\ pc = "UPDATING"
    /\ \E strict \in PushOutcomes(cfg, MakeBatch([loc EXCEPT !.r_train = ClipArray(@)]),
                                  loc.programs) :
       LET l1 == [loc EXCEPT !.r = ClipArray(@), !.r_train = ClipArray(@)]
           bl == Baseline(l1, best.ewma)
           batch == MakeBatch(l1)
           ev == IF strict THEN ThroughFirstPush(UpdateEvents(cfg))
                 ELSE UpdateEvents(cfg)
       IN  IF ~IsNone(bl.raised)
           THEN /\ Raise(Get(bl.raised))
                /\ loc' = l1
                /\ UNCHANGED <<sampled_batch, train_steps, best, memory_queue,
                               priority_queue, stats, events>>
           ELSE /\ loc' = [l1 EXCEPT !.b_train = bl.b_train]
                /\ sampled_batch' = batch
                /\ priority_queue' =
                       IF Count(ev, "push_best") = 0 THEN priority_queue
                       ELSE Some(PushBest(Get(priority_queue), PriorityCapacity(cfg),
                                          batch.rewards, l1.programs))
                /\ train_steps' = train_steps + Count(ev, "train_step")
                /\ stats' = IF Count(ev, "save_stats") = 0 THEN stats
                            ELSE SaveStats(full, l1)
                /\ memory_queue' =
                       IF Count(ev, "push_batch") = 0 THEN memory_queue
                       ELSE Some(PushBatch(Get(memory_queue), cfg.memory_capacity,
                                           batch.rewards, l1.programs))
                /\ IF strict
                   THEN /\ Raise("IndexError")       \* sampled_batch.rewards[i]
                        /\ best' = [best EXCEPT !.ewma = bl.ewma]
                        /\ events' = events \o ev
                   ELSE IF ArgMaxOfEmpty(best, full, l1)
                   THEN /\ Raise("ValueError")
                        /\ best' = [best EXCEPT !.ewma = bl.ewma]
                        /\ events' = events \o ev
                   ELSE /\ best' = BestAfterUpdate([best EXCEPT !.ewma = bl.ewma],
                                                   full, l1)
                        /\ events' = events \o ev \o <<"best">>
                        /\ pc' = "DECIDING"
                        /\ UNCHANGED error
    /\ UNCHANGED <<make_batch, cfg, n_epochs, epoch, nevals, cache, evaluations, submitted,
                   pool_state, full, sample_calls>>

(***************************************************************************)
(* DECIDING (dso 436-451, dsr 594-619).                                    *)
(***************************************************************************)
\* A success test that looks at the rows left after the filter only.
StopEvalAllFiltered ==
    cfg.eval_all /\ \E j \in DOMAIN loc.programs : P_success(loc.programs[j].val)

\* if eval_all and any(success): break
StopEvalAll == cfg.eval_all /\ AnySuccess(full)

\* if early_stopping and p_r_best.evaluate.get("success"): break
\* (dsr: p_base_r_best)
TrackedBest(b) == IF cfg.variant = "dso" THEN b.p_r_best ELSE b.p_base_r_best
StopEarly == cfg.early_stopping /\ P_success(Get(TrackedBest(best)))

\* The budget is compared at the end of every epoch in dso, and only with
\* the GP meld in dsr.
BudgetChecked == cfg.variant = "dso" \/ RunGPMeld(cfg)
\* A budget test that counts the sampled rows and not the GP evaluations.
BudgetExceededSampledOnly == (Get(epoch) + 1) * cfg.batch_size > Get(cfg.n_samples)

\* if nevals > n_samples: break
BudgetExceeded == nevals > Get(cfg.n_samples)

Decide ==
    /\ pc = "DECIDING"
    /\ IF StopEvalAll \/ StopEarly
       THEN pc' = "FINISH" /\ UNCHANGED error
       ELSE IF BudgetChecked /\ IsNone(cfg.n_samples)
       THEN Raise("TypeError")                   \* nevals > None
       ELSE IF BudgetChecked /\ BudgetExceeded
       THEN pc' = "FINISH" /\ UNCHANGED error
       ELSE pc' = "LOOP" /\ UNCHANGED error
    /\ events' = Append(events, "decide")
    /\ UNCHANGED <<make_batch, cfg, n_epochs, epoch, nevals, cache, evaluations, submitted,
                   train_steps, pool_state, full, loc, sampled_batch, best,
                   memory_queue, priority_queue, stats, sample_calls>>

(***************************************************************************)
(* After the loop (dso 453-482, dsr 620-671).                              *)
(***************************************************************************)
\* A result that prefers the tracked best to the first success.
ResultProgramBestFirst(b) ==
    IF ~IsNone(TrackedBest(b)) THEN TrackedBest(b) ELSE b.p_final

\* p = p_final if p_final is not None else p_r_best  (dsr: p_base_r_best)
ResultProgram(b) == IF ~IsNone(b.p_final) THEN b.p_final ELSE TrackedBest(b)

Finish ==
    /\ pc = "FINISH"
    /\ IF cfg.variant = "dso" /\ IsNone(epoch)
       THEN Raise("UnboundLocalError") /\ UNCHANGED best   \* save_results(..., epoch, nevals)
       ELSE IF IsNone(best.p_final) /\ IsNone(TrackedBest(best))
       THEN Raise("UnboundLocalError") /\ UNCHANGED best   \* p_r_best / p_base_r_best
       ELSE /\ best' = [best EXCEPT !.result = ResultProgram(best)]
            /\ pc' = "DONE"
            /\ UNCHANGED error
    /\ UNCHANGED <<make_batch, cfg, n_epochs, epoch, nevals, cache, evaluations, submitted,
                   train_steps, pool_state, full, loc, sampled_batch,
                   memory_queue, priority_queue, stats, events, sample_calls>>

Next ==
    \/ Initialize
    \/ LoopHead
    \/ Sample
    \/ EvaluateSerial
    \/ Instantiate
    \/ \E i \in 1..BatchSizeMax : Worker(i)
    \/ Join
    \/ Filter
    \/ Update
    \/ Decide
    \/ Finish

(***************************************************************************)
(* The specifications.  Spec runs at most one epoch over the traversals    *)
(* 0..NKeys; SpecLoop runs up to MaxEpochs epochs over the traversals      *)
(* LoopKeys; SpecQueue runs up to MaxEpochs epochs with the memory queue   *)
(* and the priority queue over the traversals QueueKeys; SpecClip runs the *)
(* baseline configurations over two traversals beyond the bound of np.clip *)
(* and one within it.                                                      *)
(***************************************************************************)
LoopKeys == {0, 1, 2}
QueueKeys == {1, 2, BigKey}
Init == InitWith(ConfigSpace({BadKey} \cup GoodKeys, {0, 1}, {1, 2}))
InitQueue == InitWith(QueueConfigSpace(QueueKeys, {BatchSizeMax * MaxEpochs}))
BaselineKeys == GoodKeys \cup {BigKey}
InitBaseline == InitWith(BaselineConfigSpace(BaselineKeys, {BatchSizeMax * MaxEpochs}))
InitLoop == InitWith(ConfigSpace(LoopKeys, {MaxEpochs},
                                {BatchSizeMax * MaxEpochs, BatchSizeMax * MaxEpochs + 1}))

Spec == Init /\ [][Next]_vars
SpecLoop == InitLoop /\ [][Next]_vars
SpecQueue == InitQueue /\ [][Next]_vars
SpecBaseline == InitBaseline /\ [][Next]_vars
InitClip == InitWith(BaselineConfigSpace({1, BigKey, HugeKey},
                                         {BatchSizeMax * MaxEpochs}))
SpecClip == InitClip /\ [][Next]_vars

(***************************************************************************)
(* The Batch builders on token rows.  A row of actions is a sequence of    *)
(* max_length tokens; the library holds a binary, a unary and an input     *)
(* token.  make_batch is the test helper, run one loop iteration per step; *)
(* the epoch's training batch and the warm-start batch take their lengths  *)
(* from the traversals from_tokens returns.                                *)
(***************************************************************************)
Tokens == {0, 1, 2}
\* arities = Program.library.arities
Arity(t) == 2 - t

\* actions = np.array([a + [0] * (L - len(a)) for a in cases])
Pad(a) == a \o [j \in 1..(MaxLength - Len(a)) |-> 0]

\* The count of dangling operands after the first p tokens of a row.
Dangling(row, p) == 1 + SeqSum([j \in 1..p |-> Arity(row[j]) - 1])
\* The positions at which the prefix of a row is structurally complete.
Complete(row) == {p \in 1..Len(row) : Dangling(row, p) = 0}
FirstComplete(row) == CHOOSE p \in Complete(row) : \A q \in Complete(row) : p <= q

\* len(from_tokens(row).traversal): the row cut after its first complete
\* prefix; a row that never completes is completed with one input token per
\* dangling operand.
TraversalLen(row) ==
    IF Complete(row) # {} THEN FirstComplete(row)
    ELSE Len(row) + Dangling(row, Len(row))

learn_vars == <<cfg, pc, error, n_epochs, epoch, nevals, cache, evaluations,
                submitted, train_steps, pool_state, full, loc, sampled_batch,
                best, memory_queue, priority_queue, stats, events, sample_calls>>

\* One iteration of `for i in range(L)` in make_batch.
MakeBatchStep ==
    /\ make_batch.kind = "make_batch" /\ make_batch.i < MaxLength
    /\ LET i1 == make_batch.i + 1
           dangling == [r \in DOMAIN make_batch.actions |->
                           make_batch.dangling[r]
                               + Arity(make_batch.actions[r][i1]) - 1]
           finished == [r \in DOMAIN make_batch.actions |->
                           dangling[r] = 0 /\ make_batch.lengths[r] = 0]
           lengths == [r \in DOMAIN make_batch.actions |->
                          IF finished[r] THEN i1 ELSE make_batch.lengths[r]]
       IN  make_batch' = [make_batch EXCEPT !.i = i1, !.dangling = dangling,
                                            !.finished = finished,
                                            !.lengths = lengths]
    /\ UNCHANGED learn_vars

\* lengths = np.where(lengths == 0, L, lengths); batch = Batch(...)
MakeBatchReturn ==
    /\ make_batch.kind = "make_batch" /\ make_batch.i = MaxLength
    /\ ~make_batch.built
    /\ make_batch' = [make_batch EXCEPT
                         !.lengths = [r \in DOMAIN @ |->
                                         IF @[r] = 0 THEN MaxLength ELSE @[r]],
                         !.built = TRUE]
    /\ UNCHANGED learn_vars

\* lengths = np.array([min(len(p.traversal), controller.max_length)
\*                     for p in p_train])
EpochBatch ==
    /\ make_batch.kind = "epoch" /\ ~make_batch.built
    /\ make_batch' = [make_batch EXCEPT
                         !.lengths = [r \in DOMAIN @ |->
                             IF TraversalLen(make_batch.actions[r]) < MaxLength
                             THEN TraversalLen(make_batch.actions[r])
                             ELSE MaxLength],
                         !.built = TRUE]
    /\ UNCHANGED learn_vars

\* l = np.array([len(p.traversal) for p in programs])
\* sampled_batch = Batch(..., lengths=l, ...)
WarmStartBatch ==
    /\ make_batch.kind = "warm_start" /\ ~make_batch.built
    /\ make_batch' = [make_batch EXCEPT
                         !.lengths = [r \in DOMAIN @ |->
                                         TraversalLen(make_batch.actions[r])],
                         !.built = TRUE]
    /\ UNCHANGED learn_vars

InitBatch ==
    /\ cfg = CHOOSE c \in ConfigSpace(GoodKeys, {1}, {BatchSizeMax}) : TRUE
    /\ pc = "INIT"
    /\ error = None
    /\ n_epochs = None
    /\ epoch = None
    /\ nevals = 0
    /\ cache = [k \in Keys |-> NoProgram]
    /\ evaluations = [k \in Keys |-> 0]
    /\ submitted = [k \in Keys |-> 0]
    /\ train_steps = 0
    /\ pool_state = NoPool
    /\ full = NoFull
    /\ loc = NoLoc
    /\ sampled_batch = NoBatch
    /\ best = NoBest
    /\ memory_queue = None
    /\ priority_queue = None
    /\ stats = NoStats
    /\ events = <<>>
    /\ sample_calls = 0
    /\ make_batch \in
           {MakeBatchStart("make_batch", [r \in 1..BatchSizeMax |-> Pad(cases[r])]) :
                cases \in [1..BatchSizeMax ->
                             UNION {[1..n -> Tokens] : n \in 0..MaxLength}]}
           \cup {MakeBatchStart(kind, actions) :
                     kind \in {"epoch", "warm_start"},
                     actions \in [1..BatchSizeMax -> [1..MaxLength -> Tokens]]}

NextBatch ==
    \/ MakeBatchStep
    \/ MakeBatchReturn
    \/ EpochBatch
    \/ WarmStartBatch

SpecBatch == InitBatch /\ [][NextBatch]_vars

(***************************************************************************)
(* Properties.                                                             *)
(***************************************************************************)
FilterDone == pc \in {"UPDATING", "DECIDING"} /\ RiskSeeking(cfg)
BatchBuilt == pc = "DECIDING"
EpochStarting == /\ ~IsNone(epoch)
                 /\ pc = "LOOP" \/ (pc = "SAMPLING" /\ Get(epoch) > 0)
BatchKeys == Range(Vals(full.actions))

\* C1: with risk-seeking enabled the filtered batch has no more rows than
\* the full batch and every retained row's reward is >= the epoch's
\* quantile, in dso and in dsr.
C1_RetainedAtLeastQuantile ==
    FilterDone =>
        /\ Len(loc.r) <= Len(full.r)
        /\ \A j \in DOMAIN loc.r : loc.r[j].val >= Get(loc.quantile)
        /\ \A j \in DOMAIN loc.r_train : loc.r_train[j].val >= Get(loc.quantile)

C3_TasksDistinctUnevaluated ==
    pc = "POOL" =>
        /\ \A i, j \in DOMAIN pool_state.tasks :
               pool_state.tasks[i] = pool_state.tasks[j] => i = j
        /\ \A i \in DOMAIN pool_state.tasks :
               /\ pool_state.tasks[i] \in BatchKeys
               /\ evaluations[pool_state.tasks[i]]
                      = (IF IsNone(pool_state.results[i]) THEN 0 ELSE 1)
        /\ \A k \in BatchKeys :
               k \in Range(pool_state.tasks) \/ ~IsNone(cache[k].reward)

C3_Witness ==
    /\ pc = "POOL" /\ epoch = Some(1)
    /\ Len(pool_state.tasks) = 1
    /\ \E k \in BatchKeys : ~IsNone(cache[k].reward) /\ k \notin Range(pool_state.tasks)

\* C4: after the pool has joined, row i of the reward vector (and of the
\* base rewards in dsr) is the task's reward of the traversal in row i of
\* the action matrix, and that Program holds its own constants.
ExpectedR(k) == TaskBaseReward(k) - TaskComplexity(k)
C4_RewardsMatchRows ==
    (cfg.pool /\ pc = "FILTERING") =>
        \A i \in 1..cfg.batch_size :
            LET k == full.actions[i].val
            IN  /\ full.programs[i].val.key = k
                /\ full.r[i].val = ExpectedR(k)
                /\ cfg.variant = "dsr" => full.base_r[i].val = TaskBaseReward(k)
                /\ cache[k].constants = Some(TaskConstants(k))

C4_Witness ==
    /\ cfg.pool /\ pc = "FILTERING"
    /\ pool_state.completed = <<2, 1>>
    /\ full.actions[1].val # full.actions[2].val

\* C5: a worker's exception does not reach the orchestrator: the epoch goes
\* on to filtering and training.
RaisedInPool ==
    \E i \in DOMAIN pool_state.results :
        ~IsNone(pool_state.results[i]) /\ Get(pool_state.results[i]).raised
C5_WorkerFailureContained == (cfg.pool /\ RaisedInPool) => pc # "RAISED"

\* C6: in the epoch's Batch the actions, each observation channel, the
\* priors, the on-policy flags, the lengths and the rewards have the same
\* rows in the same order, and each row of the actions encodes the Program
\* the lengths and the rewards of that row were taken from.
C6_BatchRowsAligned ==
    BatchBuilt =>
        LET rows == RowsOf(sampled_batch.actions)
        IN  /\ \A j \in DOMAIN sampled_batch.obs : RowsOf(sampled_batch.obs[j]) = rows
            /\ Len(sampled_batch.obs) = 3
            /\ RowsOf(sampled_batch.priors) = rows
            /\ RowsOf(sampled_batch.on_policy) = rows
            /\ RowsOf(sampled_batch.lengths) = rows
            /\ RowsOf(sampled_batch.rewards) = rows
            /\ RowsOf(loc.p_train) = rows
            /\ \A j \in DOMAIN rows :
                   sampled_batch.actions[j].val = loc.p_train[j].val.key

C6_Witness ==
    /\ BatchBuilt /\ RiskSeeking(cfg) /\ cfg.gp = "dropped"
    /\ Len(sampled_batch.rewards) < Len(loc.r)

\* C7: with GP rows merged and not fed back, the training batch holds no
\* row of index > batch_size and every on-policy row that passed the reward
\* filter, and the Programs kept for the best-candidate tracking still hold
\* the GP rows that passed it.
GPRowsOf(arr) == {j \in DOMAIN arr : arr[j].row > cfg.batch_size}
C7_TrainingBatchWithoutGP ==
    (BatchBuilt /\ cfg.gp = "dropped") =>
        /\ GPRowsOf(sampled_batch.actions) = {}
        /\ GPRowsOf(sampled_batch.rewards) = {}
        /\ GPRowsOf(loc.p_train) = {}
        /\ \A j \in DOMAIN loc.programs :
               loc.programs[j].row <= cfg.batch_size
                   => loc.programs[j].row \in Range(RowsOf(sampled_batch.rewards))
        /\ \A j \in DOMAIN loc.programs :
               loc.programs[j].val.deap <=> loc.programs[j].row > cfg.batch_size

\* C8: an epoch that ends with eval_all and a success in its full batch, or
\* with early_stopping and a successful tracked best, is the last: no epoch
\* starts after it.
C8_StopIsFinal ==
    EpochStarting =>
        /\ ~(cfg.eval_all /\ AnySuccess(full))
        /\ ~(cfg.early_stopping /\ P_success(Get(TrackedBest(best))))

C8_Witness ==
    /\ pc = "FINISH" /\ epoch = Some(0) /\ Get(n_epochs) > 1
    /\ cfg.eval_all /\ AnySuccess(full)
    /\ ~P_success(Get(TrackedBest(best)))
    /\ \A j \in DOMAIN loc.programs : ~P_success(loc.programs[j].val)

\* C9: no epoch starts once the cumulative sample count exceeds n_samples.
C9_BudgetIsFinal ==
    (EpochStarting /\ ~IsNone(cfg.n_samples)) => nevals <= Get(cfg.n_samples)

C9_Witness ==
    /\ pc = "FINISH" /\ epoch = Some(0) /\ Get(n_epochs) > 1
    /\ ~IsNone(cfg.n_samples) /\ nevals > Get(cfg.n_samples)
    /\ ~(cfg.eval_all /\ AnySuccess(full))
    /\ ~(cfg.early_stopping /\ P_success(Get(TrackedBest(best))))

\* C10: a run whose configuration assertions passed performs at most
\* n_epochs epochs and ends by returning, never by raising.
C10_LoopReturns ==
    /\ (~IsNone(epoch) /\ ~IsNone(n_epochs)) => Get(epoch) < Get(n_epochs)
    /\ (~IsNone(cfg.n_samples) /\ IsNone(cfg.n_epochs) /\ ~IsNone(n_epochs))
           => Get(n_epochs) = Get(cfg.n_samples) \div cfg.batch_size
    /\ (IsNone(cfg.n_samples) # IsNone(cfg.n_epochs)) => pc # "RAISED"

\* C11: the Program of the result is the first success of the last full
\* batch when eval_all is set and that batch holds a success, and the
\* tracked best otherwise; no epoch starts with a first success already
\* recorded, so the first success is never replaced.
C11_ResultFirstSuccessElseBest ==
    /\ EpochStarting => IsNone(best.p_final)
    /\ pc = "DONE" =>
           best.result = IF cfg.eval_all /\ AnySuccess(full)
                         THEN Some(full.programs[FirstSuccess(full)].val)
                         ELSE TrackedBest(best)

C11_Witness ==
    /\ pc = "DONE" /\ epoch = Some(1)
    /\ cfg.eval_all /\ AnySuccess(full) /\ FirstSuccess(full) > 1
    /\ ~IsNone(TrackedBest(best))
    /\ best.result # TrackedBest(best)

\* C12: when the loop has ended after an epoch, that epoch made every call
\* of an epoch, in order: push_best and sample_batch if there is a priority
\* queue, train_step, save_stats, push_batch if there is a memory queue,
\* the best update, and only then the decision; the statistics are those
\* of that epoch and train_step ran once per epoch.
EpochEvents(c) == <<"sample", "evaluate", "filter">> \o UpdateEvents(c) \o <<"best">>
LoopEnded == pc \in {"FINISH", "DONE"} /\ ~IsNone(epoch)
C12_StopAfterWholeEpoch ==
    LoopEnded =>
        /\ events = EpochEvents(cfg) \o <<"decide">>
        /\ Count(events, "train_step") = 1 /\ Count(events, "save_stats") = 1
        /\ HasPriorityQueue(cfg) => Count(events, "push_best") = 1
        /\ cfg.use_memory => Count(events, "push_batch") = 1
        /\ train_steps = Get(epoch) + 1
        /\ stats.epoch = epoch
        /\ stats.r_full = full.r

C12_Witness ==
    /\ pc = "FINISH" /\ epoch = Some(0) /\ Get(n_epochs) > 1
    /\ cfg.eval_all /\ AnySuccess(full)
    /\ HasPriorityQueue(cfg) /\ cfg.use_memory
    /\ \A j \in DOMAIN loc.programs : ~P_success(loc.programs[j].val)

\* C13: in every epoch the calls come in the order sample, evaluate,
\* filter, train_step, decide; an epoch that reached its decision made one
\* controller.sample call and one train_step call (the run has made one
\* sample call per epoch started, plus the warm start's, and one train_step
\* per epoch updated); and when train_step is issued every row of the
\* epoch's batch has its reward and no pool task is outstanding.
Precedes(a, b) ==
    \A i, j \in DOMAIN events : (events[i] = a /\ events[j] = b) => i < j
Issued(e) == Count(events, e) > 0
WarmStartCalls == IF cfg.use_memory THEN 1 ELSE 0
StoredOrFull(q, capacity, programs) ==
    \A j \in DOMAIN programs :
        \/ P_str(programs[j].val) \in UniqueItems(Get(q))
        \/ Len(Get(q).items) = capacity

\* C14 as stated: when train_step is issued, the priority queue (if there
\* is one) and the memory queue (if there is one) have both been pushed the
\* epoch's batch before it.
C14_QueuesBeforeTraining ==
    Issued("train_step") =>
        /\ HasPriorityQueue(cfg) =>
               Issued("push_best") /\ Precedes("push_best", "train_step")
        /\ cfg.use_memory =>
               Issued("push_batch") /\ Precedes("push_batch", "train_step")

\* C14 amended: when train_step is issued, the priority queue (if there is
\* one) has been pushed the epoch's batch before it; the memory queue (if
\* there is one) is pushed the epoch's batch after train_step and
\* save_stats, in the same update; each queue then stores every Program that
\* has a row in the epoch's Batch or is full.
C14_PriorityBeforeMemoryAfter ==
    Issued("train_step") =>
        /\ HasPriorityQueue(cfg) =>
               /\ Issued("push_best") /\ Precedes("push_best", "train_step")
               /\ StoredOrFull(priority_queue, Get(cfg.pqt_k), loc.p_train)
        /\ cfg.use_memory =>
               /\ Issued("push_batch")
               /\ Precedes("train_step", "push_batch")
               /\ Precedes("save_stats", "push_batch")
               /\ StoredOrFull(memory_queue, cfg.memory_capacity, loc.p_train)

C14_Witness ==
    /\ pc = "DECIDING" /\ cfg.use_memory /\ HasPriorityQueue(cfg)
    /\ cfg.memory_capacity = 2
    /\ Len(loc.memory_r) > 0
    /\ \E j \in DOMAIN loc.unique_programs :
           P_str(loc.unique_programs[j].val) \in UniqueItems(Get(memory_queue))

\* C15: the full-batch vectors save_stats receives (rewards, lengths, string
\* keys, actions, validity) have one entry per row of the full batch, rows
\* the filter discards included, and each entry is the row's own value: the
\* unclamped reward, the length, the key and the validity of the row's
\* Program, whatever the filter, the clamp and the queue pushes did.
C15_FullMetricsUntouched ==
    Issued("save_stats") =>
        /\ Len(stats.r_full) = Len(full.programs)
        /\ Len(stats.l_full) = Len(full.programs)
        /\ Len(stats.s_full) = Len(full.programs)
        /\ Len(stats.actions_full) = Len(full.programs)
        /\ Len(stats.invalid_full) = Len(full.programs)
        /\ stats.actions_full = full.actions
        /\ \A i \in DOMAIN full.programs :
               LET p == full.programs[i].val
               IN  /\ stats.r_full[i].val = P_r(cfg.variant, cache, p)
                   /\ stats.l_full[i].val = P_len(p)
                   /\ stats.s_full[i].val = P_str(p)
                   /\ stats.invalid_full[i].val = P_invalid(p)

C15_Witness ==
    /\ Issued("save_stats") /\ Issued("push_batch") /\ Issued("push_best")
    /\ Len(stats.r) = 1 /\ Len(stats.r_full) = 2
    /\ stats.r[1].val = ClipBound
    /\ \E i \in DOMAIN stats.r_full : stats.r_full[i].val > ClipBound

\* C16: with use_memory and epsilon None or not below 1, or with a stochastic
\* task and a const token in the library, learn raises AssertionError
\* before the loop: no epoch is entered, no epoch's sample and no train_step
\* is issued (the only sample is the warm start's, which precedes the
\* stochastic assertion), and once raised the error stays.
MemoryWithoutRiskSeeking(c) ==
    c.use_memory /\ (IsNone(c.epsilon) \/ Get(c.epsilon) >= 100)
C16_PreconditionAbortsAtInit ==
    (MemoryWithoutRiskSeeking(cfg) \/ (cfg.stochastic /\ cfg.const_token)) =>
        /\ pc \in {"INIT", "RAISED"}
        /\ pc = "RAISED" <=> error = Some("AssertionError")
        /\ pc = "INIT" <=> IsNone(error)
        /\ IsNone(epoch) /\ events = <<>> /\ train_steps = 0 /\ nevals = 0
        /\ sample_calls <= WarmStartCalls
        /\ MemoryWithoutRiskSeeking(cfg) => sample_calls = 0 /\ IsNone(memory_queue)

C16_Witness ==
    /\ pc = "RAISED" /\ error = Some("AssertionError")
    /\ cfg.use_memory /\ cfg.epsilon = Some(100)

C16_WitnessStochastic ==
    /\ pc = "RAISED" /\ error = Some("AssertionError")
    /\ cfg.stochastic /\ cfg.const_token /\ cfg.use_memory /\ sample_calls = 1

\* C17: after the warm start and after every push_batch, the memory queue
\* holds at most memory_capacity items and no two of them have the same key.
C17_MemoryBoundedAndUnique ==
    ~IsNone(memory_queue) =>
        LET items == Get(memory_queue).items
        IN  /\ Len(items) <= cfg.memory_capacity
            /\ \A i, j \in DOMAIN items : items[i].key = items[j].key => i = j

C17_Witness ==
    /\ Issued("push_batch") /\ epoch = Some(1)
    /\ cfg.memory_capacity = 2 /\ Len(Get(memory_queue).items) = 2
    /\ Len(Get(memory_queue).evicted) >= 1
    /\ \E i, j \in DOMAIN loc.programs :
           i # j /\ P_str(loc.programs[i].val) = P_str(loc.programs[j].val)

\* C18: when a push into a full memory queue evicts an item, the evicted
\* item is one of lowest reward: no stored item has a lower reward than an
\* item the queue has evicted; and a queue of capacity 2 pushed the rewards
\* 2, 5, 9 (0.2, 0.5, 0.9 in tenths) in sequence stores {5, 9}.
C18_EvictsLowestReward ==
    /\ ~IsNone(memory_queue) =>
           LET q == Get(memory_queue)
           IN  \A i \in DOMAIN q.items : \A j \in DOMAIN q.evicted :
                   q.items[i].reward >= q.evicted[j]
    /\ LET q1 == QueuePush(EmptyQueue, 2, Item(1, 2))
           q2 == QueuePush(q1, 2, Item(2, 5))
           q3 == QueuePush(q2, 2, Item(3, 9))
       IN  /\ Range(GetRewards(q3)) = {5, 9}
           /\ q3.evicted = <<2>>

C18_Witness ==
    /\ Issued("push_batch") /\ cfg.memory_capacity = 2
    /\ Len(loc.memory_r) = 2
    /\ LET q == Get(memory_queue)
       IN  /\ Len(q.items) = 2 /\ Len(q.evicted) = 1
           /\ q.evicted[1] \in Range(loc.memory_r)
           /\ \E i \in DOMAIN q.items : q.items[i].reward \notin Range(loc.memory_r)
           /\ \A i \in DOMAIN q.items : q.items[i].reward > q.evicted[1]

\* C19: in the memory-augmented quantile with N >= 1 Programs of the batch
\* absent from the memory, combined_r and combined_w both have length
\* (size of the memory) + N, each of the N sample weights is
\* (1 - sum of memory_w) / N and is not negative, and combined_w sums to 1.
C19_CombinedWeightsSumToOne ==
    (cfg.use_memory /\ Issued("filter") /\ Len(loc.unique_programs) >= 1) =>
        LET N == Len(loc.unique_programs)
            M == Len(loc.memory_r)
        IN  /\ ~Issued("push_batch") => M = Len(Get(memory_queue).items)
            /\ Len(loc.memory_w) = M
            /\ Len(loc.combined_r) = M + N
            /\ Len(loc.combined_w) = M + N
            /\ \A j \in 1..N :
                   LET w == loc.combined_w[M + j]
                   IN  /\ w[2] > 0 /\ w[1] >= 0
                       /\ RAdd(RMul(w, RInt(N)), RSum(loc.memory_w)) = RInt(1)
            /\ RSum(loc.combined_w) = RInt(1)

C19_Witness ==
    /\ cfg.use_memory /\ Issued("filter")
    /\ Len(loc.unique_programs) = 2 /\ Len(loc.memory_r) = 2
    /\ loc.combined_w[3][1] > 0

C19_WitnessNoSlack ==
    /\ cfg.use_memory /\ Issued("filter") /\ cfg.memory_slack = 0
    /\ Len(loc.unique_programs) >= 1 /\ loc.combined_w[Len(loc.combined_w)][1] = 0

\* C20: the Programs whose rewards are appended to the memory's rewards for
\* the weighted quantile are the set difference by key between the batch
\* and the memory: none of their keys is stored in the memory, every key of
\* the batch that is not stored is among them, and no key is among them
\* twice.
C20_SamplesAreSetDifference ==
    (cfg.use_memory /\ Issued("filter") /\ ~Issued("push_batch")) =>
        LET u == loc.unique_programs
            stored == UniqueItems(Get(memory_queue))
        IN  /\ \A j \in DOMAIN u : P_str(u[j].val) \notin stored
            /\ \A i \in DOMAIN full.programs :
                   P_str(full.programs[i].val) \notin stored =>
                       \E j \in DOMAIN u : u[j].val = full.programs[i].val
            /\ \A i, j \in DOMAIN u : P_str(u[i].val) = P_str(u[j].val) => i = j

\* The part of C20 the list comprehension does give: the Programs are the
\* rows of the batch, in order, whose key is not stored in the memory.
C20_SamplesAreRowsNotStored ==
    (cfg.use_memory /\ Issued("filter") /\ ~Issued("push_batch")) =>
        LET u == loc.unique_programs
            stored == UniqueItems(Get(memory_queue))
        IN  /\ \A j \in DOMAIN u : P_str(u[j].val) \notin stored
            /\ Len(u) = Cardinality({i \in DOMAIN full.programs :
                                       P_str(full.programs[i].val) \notin stored})
            /\ Len(loc.combined_r) = Len(loc.memory_r) + Len(u)

\* What the N == 0 branch computes: the warning is printed, combined_r is
\* the memory's rewards, combined_w is memory_w divided by its sum (total
\* 1), and the quantile is a stored reward (the stored reward, when the
\* memory holds one item).
ZeroUniqueHandled ==
    /\ loc.warned
    /\ loc.combined_r = loc.memory_r
    /\ Len(loc.combined_w) = Len(loc.memory_w)
    /\ \A i \in DOMAIN loc.memory_w :
           RMul(loc.combined_w[i], RSum(loc.memory_w)) = loc.memory_w[i]
    /\ RSum(loc.combined_w) = RInt(1)
    /\ Get(loc.quantile) \in Range(loc.memory_r)
    /\ Len(loc.memory_r) = 1 => Get(loc.quantile) = loc.memory_r[1]

\* C21: in an epoch whose batch holds no Program absent from the memory
\* (N == 0), the warning is printed, the weights are memory_w renormalised
\* to sum to 1, the quantile is computed from the memory's items alone, and
\* the epoch does not raise.
C21_ZeroUniqueSamplesNotFatal ==
    (cfg.use_memory /\ Issued("filter") /\ Len(loc.unique_programs) = 0) =>
        ZeroUniqueHandled /\ pc # "RAISED"

\* The part of C21 that holds: the N == 0 branch itself.
C21_ZeroUniqueSamplesRenormalised ==
    (cfg.use_memory /\ Issued("filter") /\ Len(loc.unique_programs) = 0) =>
        ZeroUniqueHandled

C21_RenormalisedWitness ==
    /\ cfg.use_memory /\ Issued("filter") /\ Len(loc.unique_programs) = 0
    /\ cfg.memory_slack = 1 /\ Len(loc.memory_r) = 2 /\ pc = "DECIDING"

C21_SingleEntryWitness ==
    /\ cfg.use_memory /\ Issued("filter") /\ Len(loc.unique_programs) = 0
    /\ Len(loc.memory_r) = 1 /\ pc = "DECIDING"

\* C22: after any sequence of push_best calls the priority queue holds at
\* most K = controller.pqt_k items, and its lowest stored reward is at least
\* every reward it has evicted.
C22_PriorityQueueKeepsBest ==
    ~IsNone(priority_queue) =>
        LET q == Get(priority_queue)
        IN  /\ ~IsNone(cfg.pqt_k) /\ Len(q.items) <= Get(cfg.pqt_k)
            /\ \A i \in DOMAIN q.items : \A j \in DOMAIN q.evicted :
                   q.items[i].reward >= q.evicted[j]

C22_Witness ==
    /\ ~IsNone(priority_queue) /\ cfg.pqt_k = Some(2)
    /\ epoch = Some(1) /\ Issued("push_best")
    /\ Len(Get(priority_queue).items) = 2
    /\ Len(Get(priority_queue).evicted) >= 1

\* C23: with baseline "R_e", in every epoch that issues train_step the
\* baseline b_train it is given is the quantile computed in that epoch from
\* that epoch's batch.
C23_ReBaselineIsQuantile ==
    (cfg.baseline = "R_e" /\ Issued("train_step")) =>
        /\ ~IsNone(loc.quantile)
        /\ loc.b_train = Some(RInt(Get(loc.quantile)))
        /\ ~cfg.use_memory =>
               Get(loc.quantile) = EmpiricalQuantile(Vals(full.r), Get(cfg.epsilon))

C23_Witness ==
    /\ cfg.baseline = "R_e" /\ Issued("train_step") /\ epoch = Some(1)
    /\ Get(best.r_best) > Get(full.r_max)
    /\ Get(loc.b_train) = RInt(Get(full.r_max))

\* C24: with baseline "ewma_R" and alpha = 1.0, in every epoch that issues
\* train_step the baseline is the mean of that epoch's training rewards,
\* whatever the earlier epochs were and whatever b_jumpstart is.
C24_EwmaAlphaOneIsMean ==
    (cfg.baseline = "ewma_R" /\ cfg.alpha = 100 /\ Issued("train_step")) =>
        loc.b_train = Some(Mean(Vals(loc.r_train)))

\* The part of C24 that holds: the same in the runs in which no epoch has
\* an empty training batch (here, the runs without the GP meld).
C24_EwmaAlphaOneIsMeanNoGP ==
    (cfg.baseline = "ewma_R" /\ cfg.alpha = 100 /\ Issued("train_step")
        /\ cfg.gp = "none") =>
        /\ loc.r_train # <<>>
        /\ loc.b_train = Some(Mean(Vals(loc.r_train)))

C24_NoGPWitness ==
    /\ cfg.baseline = "ewma_R" /\ cfg.alpha = 100 /\ Issued("train_step")
    /\ cfg.gp = "none" /\ ~cfg.b_jumpstart /\ epoch = Some(1)
    /\ Get(best.r_best) > Get(full.r_max)

\* The rewards of the Batch given to train_step, and the mean and the
\* minimum of r_train, lie in [-1e6, 1e6].
BatchRewardsClamped ==
    LET rt == Vals(loc.r_train)
    IN  /\ sampled_batch.rewards = loc.r_train
        /\ \A i \in DOMAIN rt : rt[i] >= 0 - ClipBound /\ rt[i] <= ClipBound
        /\ rt # <<>> =>
               /\ SeqMin(rt) >= 0 - ClipBound /\ SeqMin(rt) <= ClipBound
               /\ RGeq(Mean(rt), RInt(0 - ClipBound))
               /\ RGeq(RInt(ClipBound), Mean(rt))

\* C25: the rewards are clamped to [-1e6, 1e6] before the baseline is
\* computed: when train_step is issued every reward of its Batch, and the
\* mean, the minimum and the quantile that enter the baseline, lie in
\* [-1e6, 1e6].
C25_ClampedBeforeBaseline ==
    Issued("train_step") =>
        /\ BatchRewardsClamped
        /\ cfg.baseline \in {"R_e", "combined"} =>
               /\ Get(loc.quantile) >= 0 - ClipBound
               /\ Get(loc.quantile) <= ClipBound

\* The part of C25 that holds: the Batch's rewards, their mean and their
\* minimum.
C25_BatchRewardsClamped == Issued("train_step") => BatchRewardsClamped

C25_ClampedWitness ==
    /\ Issued("train_step") /\ cfg.baseline = "ewma_R"
    /\ \E i \in DOMAIN full.r : full.r[i].val > ClipBound
    /\ Len(loc.r_train) = 2 /\ loc.b_train = Some(RInt(ClipBound))

\* C26: evaluation never overlaps epochs: a task is outstanding only while
\* learn waits in pool.map, and when epoch e+1 is about to call
\* controller.sample every task submitted in epoch e has been evaluated and
\* has its result, and every Program of epoch e's batch has its reward.
C26_NoEvaluationAcrossEpochs ==
    /\ pc # "POOL" =>
           \A i \in DOMAIN pool_state.tasks : ~IsNone(pool_state.results[i])
    /\ (pc = "SAMPLING" /\ epoch # Some(0)) =>
           /\ \A i \in DOMAIN pool_state.tasks :
                  /\ evaluations[pool_state.tasks[i]] >= 1
                  /\ ~IsNone(cache[pool_state.tasks[i]].reward)
           /\ Len(full.r) = Len(full.programs)
           /\ \A i \in DOMAIN full.programs :
                  \/ full.programs[i].val.deap
                  \/ /\ ~IsNone(cache[full.programs[i].val.key].reward)
                     /\ evaluations[full.programs[i].val.key] >= 1

C26_Witness ==
    /\ pc = "SAMPLING" /\ epoch = Some(1) /\ cfg.pool
    /\ pool_state.completed = <<2, 1>>

\* C27: the workers operate on copies: while learn waits in pool.map the
\* canonical Program of every task still has no constants and no reward,
\* whatever results the workers have produced; after the pool has joined
\* without an exception the canonical Program of every task has the
\* constants and the reward of that task's result.
C27_WorkersLeaveCanonicalAlone ==
    /\ pc = "POOL" =>
           \A i \in DOMAIN pool_state.tasks :
               /\ IsNone(cache[pool_state.tasks[i]].reward)
               /\ IsNone(cache[pool_state.tasks[i]].constants)
    /\ pc \notin {"POOL", "RAISED"} =>
           \A i \in DOMAIN pool_state.tasks :
               LET res == Get(pool_state.results[i])
                   k == pool_state.tasks[i]
               IN  /\ cache[k].reward = Some(res.reward)
                   /\ cache[k].constants = Some(res.constants)
                   /\ res = WorkResult(cfg.variant, k)

C27_Witness ==
    /\ pc = "POOL" /\ Len(pool_state.tasks) = 2
    /\ pool_state.completed = <<2>>
    /\ IsNone(cache[pool_state.tasks[2]].reward)
    /\ cache[pool_state.tasks[2]].count >= 1

\* C28: without the memory queue the quantile is the "higher" order
\* statistic of the batch's rewards at probability 1 - epsilon: it is one of
\* the batch's rewards, fewer than h + 1 rewards lie below it and at least
\* h + 1 do not exceed it, h being (n - 1)(1 - epsilon) rounded up; for the
\* rewards 0.1, 0.9, 0.4, 0.7 (in tenths) and epsilon 0.5 it is 0.7 and the
\* mask is False, True, False, True.
C28_EmpiricalQuantileRoundsUp ==
    /\ (RiskSeeking(cfg) /\ ~cfg.use_memory /\ Issued("filter")) =>
           LET r == Vals(full.r)
               n == Len(r)
               q == Get(loc.quantile)
               below == Cardinality({i \in DOMAIN r : r[i] < q})
               upto == Cardinality({i \in DOMAIN r : r[i] <= q})
               e == Get(cfg.epsilon)
           IN  /\ q \in Range(r)
               /\ below * 100 < (n - 1) * (100 - e) + 100
               /\ (upto - 1) * 100 >= (n - 1) * (100 - e)
    /\ LET r == <<1, 9, 4, 7>>
           q == EmpiricalQuantile(r, 50)
       IN  /\ q = 7
           /\ KeepMask([r |-> Array(r), base_r |-> Array(r)], q)
                  = <<FALSE, TRUE, FALSE, TRUE>>

C28_Witness ==
    /\ RiskSeeking(cfg) /\ ~cfg.use_memory /\ Issued("filter")
    /\ cfg.epsilon = Some(50) /\ Len(full.r) = 2
    /\ Get(loc.quantile) = Get(full.r_max)
    /\ \E i \in DOMAIN full.r : full.r[i].val < Get(loc.quantile)
    /\ cfg.variant = "dso" /\ Len(loc.r) = 1

\* C29: every Batch that is built (by the test helper, for an epoch, for
\* the warm start) has each lengths[i] at most max_length and equal to the
\* 1-based index of the first position at which the count of dangling
\* operands reaches zero, or max_length if the row never completes; while
\* the test helper runs, a length that is set is the first completion and
\* later positions leave it alone.
LengthsAreFirstCompletion ==
    /\ make_batch.built =>
           \A r \in DOMAIN make_batch.actions :
               /\ make_batch.lengths[r] <= MaxLength
               /\ make_batch.lengths[r] =
                      IF Complete(make_batch.actions[r]) # {}
                      THEN FirstComplete(make_batch.actions[r]) ELSE MaxLength
    /\ (make_batch.kind = "make_batch" /\ ~make_batch.built) =>
           \A r \in DOMAIN make_batch.actions :
               make_batch.lengths[r] =
                   IF \E p \in Complete(make_batch.actions[r]) : p <= make_batch.i
                   THEN FirstComplete(make_batch.actions[r]) ELSE 0
C29_LengthsAreFirstCompletion == LengthsAreFirstCompletion

\* C29, without the warm start: the Batch of the test helper and the
\* epoch's training batch have the lengths the claim states.
C29_LengthsOutsideWarmStart ==
    make_batch.kind # "warm_start" => LengthsAreFirstCompletion

\* The test helper returned a batch with a row that completes at its first
\* token and whose count of dangling operands is zero again at the last
\* token, and a row that never completes.
C29_HelperWitness ==
    /\ make_batch.kind = "make_batch" /\ make_batch.built
    /\ make_batch.actions[1][1] = 2 /\ make_batch.dangling[1] = 0
    /\ make_batch.lengths[1] = 1
    /\ Complete(make_batch.actions[2]) = {} /\ make_batch.lengths[2] = MaxLength
C29_EpochWitness ==
    /\ make_batch.kind = "epoch" /\ make_batch.built
    /\ Complete(make_batch.actions[1]) = {}
    /\ TraversalLen(make_batch.actions[1]) > MaxLength
    /\ make_batch.lengths[1] = MaxLength
    /\ make_batch.lengths[2] < MaxLength

\* C30: when n_epochs is given, n_samples is None, the baseline is one the
\* configuration defines (R_e only with risk-seeking), no evaluation raised
\* and no early-stopping criterion fired, learn ends by returning its
\* result after exactly n_epochs epochs.
DirectEpochsEnded ==
    /\ ~IsNone(cfg.n_epochs) /\ IsNone(cfg.n_samples)
    /\ cfg.baseline = "R_e" => RiskSeeking(cfg)
    /\ pc \in {"DONE", "RAISED"} /\ error # Some("Exception")
    /\ ~StopEvalAll
    /\ ~(cfg.early_stopping /\ ~IsNone(TrackedBest(best))
             /\ P_success(Get(TrackedBest(best))))
AllEpochsRun ==
    /\ pc = "DONE" /\ ~IsNone(best.result)
    /\ n_epochs = cfg.n_epochs
    /\ epoch = Some(Get(cfg.n_epochs) - 1)
    /\ train_steps = Get(cfg.n_epochs)
C30_DirectEpochsAllRun == DirectEpochsEnded => AllEpochsRun

\* C30, where the sample budget is not compared (dsr without the GP meld).
C30_DirectEpochsAllRunUnchecked ==
    (DirectEpochsEnded /\ ~BudgetChecked) => AllEpochsRun

C30_UncheckedWitness ==
    /\ DirectEpochsEnded /\ ~BudgetChecked /\ cfg.n_epochs = Some(MaxEpochs)
    /\ pc = "DONE" /\ train_steps = MaxEpochs /\ sample_calls = MaxEpochs

\* C31: in the first epoch that trains, with b_jumpstart the EWMA part of
\* the baseline is the average of that epoch's training rewards in each of
\* the modes ewma_R, ewma_R_e and combined; without b_jumpstart it is
\* alpha*x + (1 - alpha)*0.0 for the mode's x.
FirstEpochTrained ==
    /\ epoch = Some(0) /\ Issued("train_step")
    /\ cfg.baseline \in {"ewma_R", "ewma_R_e", "combined"}
EwmaX ==
    LET rt == Vals(loc.r_train)
    IN  CASE cfg.baseline = "ewma_R" -> Mean(rt)
          [] cfg.baseline = "ewma_R_e" -> RInt(Get(loc.quantile))
          [] cfg.baseline = "combined" -> RSub(Mean(rt), RInt(Get(loc.quantile)))
EwmaFromZero ==
    best.ewma = Some(RAdd(RMul(Rat(cfg.alpha, 100), EwmaX),
                          RMul(Rat(100 - cfg.alpha, 100), RInt(0))))
C31_WitnessFromZero ==
    /\ FirstEpochTrained /\ ~cfg.b_jumpstart /\ cfg.baseline = "combined"
    /\ cfg.alpha = 50 /\ best.ewma # Some(RInt(0))
    /\ best.ewma # Some(EwmaX)

\* C32: whenever push_best or push_batch was called in the epoch, the Batch
\* and the list of Programs it was given have the same number of entries,
\* and entry j of the list is the Program that row j of the Batch encodes;
\* also when GP rows were merged and are not returned to the controller.
PushArgumentsAligned ==
    (Issued("push_best") \/ Issued("push_batch")) =>
        /\ Len(loc.programs) = Len(sampled_batch.rewards)
        /\ Len(loc.programs) = Len(sampled_batch.actions)
        /\ \A j \in DOMAIN loc.programs :
               /\ sampled_batch.actions[j].row = loc.programs[j].row
               /\ sampled_batch.rewards[j].row = loc.programs[j].row
               /\ sampled_batch.actions[j].val = P_str(loc.programs[j].val)
C32_PushArgumentsAligned == PushArgumentsAligned

\* C32, in the epochs without GP rows.
C32_PushArgumentsAlignedNoGP == cfg.gp = "none" => PushArgumentsAligned

\* Both queues were pushed in a second epoch whose filter removed a row.
C32_NoGPWitness ==
    /\ cfg.gp = "none" /\ Issued("push_best") /\ Issued("push_batch")
    /\ epoch = Some(1)
    /\ Len(loc.programs) = 1 /\ Len(full.programs) = 2
    /\ loc.programs[1].row = 2

\* A push was given a GP row without a row in the Batch, and raised.
C32_StrictPushRaised ==
    /\ error = Some("IndexError") /\ Issued("push_batch")
    /\ Len(loc.programs) = Len(sampled_batch.rewards) + 1
    /\ loc.programs[Len(loc.programs)].val.deap

\* C33: in every epoch at least one row passes the filter: the training
\* batch and the filtered batch are non-empty, so the mean, the minimum and
\* the argmax taken over them are defined (no ValueError, no NaN baseline).
TrainingBatchNonEmpty ==
    Issued("filter") =>
        /\ loc.r_train # <<>> /\ loc.p_train # <<>>
        /\ loc.r # <<>>
        /\ error # Some("ValueError")
        /\ loc.b_train # Some(NaN)
C33_TrainingBatchNonEmpty == TrainingBatchNonEmpty

\* C33, with the empirical quantile and no GP rows masked out.
C33_EmpiricalFilterKeepsARow ==
    (~cfg.use_memory /\ cfg.gp # "dropped") => TrainingBatchNonEmpty

\* An epoch with the empirical quantile whose filter kept one row of two.
C33_EmpiricalWitness ==
    /\ ~cfg.use_memory /\ cfg.gp = "none" /\ RiskSeeking(cfg)
    /\ Issued("train_step") /\ cfg.variant = "dsr"
    /\ Len(loc.r_train) = 1 /\ Len(full.r) = 2
    /\ loc.r_train[1].val = Get(loc.quantile)

\* C34: after every epoch the tracked best candidate is a candidate whose
\* reward is r_best (in dsr also: p_base_r_best has base reward
\* base_r_best); r_best changes only when a full batch is retrieved, to the
\* maximum of its old value and that batch's maximum reward, so it is the
\* maximum over all full batches so far and never decreases; and the tracked
\* candidate is replaced only in an epoch whose batch maximum exceeds the
\* previous r_best, by the argmax of the filtered rewards.
TrackedBestHasBestReward ==
    pc = "DECIDING" =>
        /\ ~IsNone(best.p_r_best)
        /\ P_r(cfg.variant, cache, Get(best.p_r_best)) = Get(best.r_best)
        /\ best.prev_r_best = best.r_best
        /\ cfg.variant = "dsr" =>
               /\ ~IsNone(best.p_base_r_best)
               /\ P_base_r(cache, Get(best.p_base_r_best)) = Get(best.base_r_best)
BestRewardStep ==
    /\ IF pc # "FILTERING" /\ pc' = "FILTERING"
       THEN /\ full'.r_max = Some(SeqMax(Vals(full'.r)))
            /\ best'.r_best = IF IsNone(best.r_best) THEN full'.r_max
                              ELSE Some(Max2(Get(full'.r_max), Get(best.r_best)))
       ELSE best'.r_best = best.r_best
    /\ best'.p_r_best # best.p_r_best =>
           /\ pc = "UPDATING" /\ pc' = "DECIDING"
           /\ IsNone(best.prev_r_best) \/ Get(full.r_max) > Get(best.prev_r_best)
           /\ best'.p_r_best = Some(loc'.programs[ArgMax(Vals(loc'.r))].val)
C34_RunningBestIsBatchMaximum ==
    [](TrackedBestHasBestReward) /\ [][BestRewardStep]_vars

\* C34, the running maximum and the replacement rule alone.
C34_RunningBestStep == [][BestRewardStep]_vars

\* C34, for the tracked candidate in the runs in which no reward seen so far
\* lies beyond the bound of np.clip.
C34_TrackedBestUnclamped ==
    (~IsNone(best.r_best) /\ Get(best.r_best) <= ClipBound)
        => TrackedBestHasBestReward

\* A second epoch whose batch maximum is below r_best kept the candidate of
\* the first.
C34_Witness ==
    /\ pc = "DECIDING" /\ epoch = Some(1)
    /\ Get(full.r_max) < Get(best.r_best)
    /\ \A j \in DOMAIN full.programs : full.programs[j].val # Get(best.p_r_best)
    /\ RiskSeeking(cfg)

\* C35: when the loop of a run that passed its configuration assertions has
\* ended, the epoch counter of the final report and the candidate the result
\* is built from are defined, also after zero epochs, and learn returns a
\* result built from that candidate.
ResultDefinedAtLoopEnd ==
    /\ pc = "FINISH" => /\ cfg.variant = "dso" => ~IsNone(epoch)
                        /\ ~IsNone(ResultProgram(best))
    /\ pc = "DONE" => /\ ~IsNone(best.result)
                      /\ best.result = ResultProgram(best)
C35_ResultDefinedAtLoopEnd == ResultDefinedAtLoopEnd

\* C35, for the runs whose loop ran at least one epoch.
C35_ResultDefinedAfterAnEpoch ==
    (~IsNone(n_epochs) /\ Get(n_epochs) > 0) => ResultDefinedAtLoopEnd

C35_AfterAnEpochWitness ==
    /\ pc = "DONE" /\ Get(n_epochs) = 1 /\ epoch = Some(0)
    /\ cfg.n_samples = Some(cfg.batch_size) /\ IsNone(best.p_final)
    /\ best.result = TrackedBest(best)

\* C36: in every epoch of every configuration (the four baseline modes,
\* risk-seeking on, or off by epsilon None or 1.0) a baseline is computed
\* and given to train_step: no epoch ends after its filter in an
\* UnboundLocalError, and a train_step that was issued had its b_train.
BaselineComputed ==
    /\ Issued("train_step") => ~IsNone(loc.b_train)
    /\ Issued("filter") => error # Some("UnboundLocalError")
C36_BaselineComputed == BaselineComputed

\* C36, with risk-seeking on, or with the baseline ewma_R.
C36_BaselineComputedWithQuantile ==
    (RiskSeeking(cfg) \/ cfg.baseline = "ewma_R") => BaselineComputed

\* The second epoch of a combined baseline with risk-seeking on; and a
\* second epoch of ewma_R without risk-seeking.
C36_QuantileWitness ==
    /\ cfg.baseline = "combined" /\ RiskSeeking(cfg) /\ epoch = Some(1)
    /\ Issued("train_step") /\ ~IsNone(loc.quantile)
    /\ loc.b_train = Some(RAdd(RInt(Get(loc.quantile)), Get(best.ewma)))
C36_NoQuantileWitness ==
    /\ cfg.baseline = "ewma_R" /\ cfg.epsilon = Some(100) /\ epoch = Some(1)
    /\ Issued("train_step") /\ IsNone(loc.quantile) /\ loc.b_train = best.ewma

\* A jump-started ewma_R_e without risk-seeking trains its first epoch from
\* the minimum of the rewards and raises in its second.
C36_SecondEpochRaised ==
    /\ cfg.baseline = "ewma_R_e" /\ cfg.epsilon = None /\ cfg.b_jumpstart
    /\ epoch = Some(1) /\ error = Some("UnboundLocalError") /\ train_steps = 1


\* C37: the pool branch and the serial branch make the same of a batch: in
\* every epoch of a pool run, once pool.map has returned, the per-row rewards
\* (r, and base_r in dsr), every other metric of the batch, the cache (count,
\* constants and reward of every traversal), the number of evaluations of
\* every traversal and the number of from_tokens calls are those the serial
\* branch produces from the same batch and the same cache; the filter's mask
\* and the filtered arrays are those of the serial batch; and the pool raises
\* out of pool.map exactly when the serial branch raises out of from_tokens.
SerialOutcome == Get(pool_state.serial)
PoolMatchesSerial ==
    (cfg.pool /\ pc \in {"FILTERING", "UPDATING"}) =>
        /\ ~IsNone(pool_state.serial)
        /\ ~SerialOutcome.raised
        /\ full.r = SerialOutcome.full.r
        /\ full.base_r = SerialOutcome.full.base_r
        /\ full = SerialOutcome.full
        /\ cache = SerialOutcome.cache
        /\ evaluations = SerialOutcome.evaluations
        /\ submitted = SerialOutcome.submitted
        /\ pc = "UPDATING" =>
               /\ loc.keep = Filtered(SerialOutcome.full).keep
               /\ loc = Filtered(SerialOutcome.full)
PoolRaisesAsSerial ==
    (cfg.pool /\ pc = "RAISED" /\ RaisedInPool) =>
        /\ error = Some("Exception")
        /\ SerialOutcome.raised
C37_PoolMatchesSerial == PoolMatchesSerial /\ PoolRaisesAsSerial

\* The second epoch of a pool run whose batch holds a traversal cached in the
\* first epoch and a new one, and whose filter dropped a row.
C37_Witness ==
    /\ cfg.pool /\ pc = "UPDATING" /\ epoch = Some(1)
    /\ Len(pool_state.tasks) = 1
    /\ full.actions[1].val # full.actions[2].val
    /\ ~IsNone(loc.keep)
    /\ \E j \in DOMAIN Get(loc.keep) : ~Get(loc.keep)[j]
    /\ \E j \in DOMAIN Get(loc.keep) : Get(loc.keep)[j]

\* A first epoch whose two tasks completed in reverse order.
C37_ReverseOrderWitness ==
    /\ cfg.pool /\ pc = "FILTERING" /\ epoch = Some(0)
    /\ pool_state.completed = <<2, 1>>
    /\ pool_state.tasks[1] # pool_state.tasks[2]

\* A pool run that raised out of pool.map in its second epoch.
C37_RaisedWitness ==
    /\ cfg.pool /\ pc = "RAISED" /\ RaisedInPool /\ epoch = Some(1)
    /\ Len(pool_state.tasks) = 1

=============================================================================
